---- MODULE Spec2Model ----
(***************************************************************************)
(* Model of the enc_mnist-rs trusted application (ta/inference), its key   *)
(* manager client and the host commands that stream an encrypted model     *)
(* into it.  Bytes are the integers 0..255, byte strings are sequences.    *)
(***************************************************************************)
EXTENDS Integers, Sequences, FiniteSets, TLC

(***************************************************************************)
(* Program constants.                                                      *)
(***************************************************************************)
AES_KEY_SIZE == 32

AES_BLOCK_SIZE == 16

\* tee.rs: the slack the host adds to the output buffer of encrypt_model.
ENCRYPT_SLACK == 1024

\* First byte of a well-formed serialized model record (stands for the
\* header the record loader checks).
RECORD_MAGIC == 77

(***************************************************************************)
(* Bounds of the model.                                                    *)
(***************************************************************************)
\* proto::CHUNK_SIZE counted in cipher blocks (the transport window).
ChunkBlocks == 2

\* Longest plaintext given to encrypt_data in SpecCrypto.
MaxPlainLen == 66

\* Number of distinct 32-byte keys the host or the random source can supply.
NumKeys == 2

\* Longest accumulation buffer the sessions of Spec build up.
MaxBuf == 32

\* Longest model the host encrypt command is run on in SpecE2E.
MaxModelLen == 70

\* The host's chunking threshold (1024 * 1024 in encrypt.rs), scaled down.
ChunkThreshold == 32

CHUNK_SIZE == ChunkBlocks * AES_BLOCK_SIZE

Min(a, b) == IF a < b THEN a ELSE b

Max(a, b) == IF a > b THEN a ELSE b

NoKey == <<>>

Rc(code) == [rc |-> code]

(***************************************************************************)
(* Byte helpers.                                                           *)
(***************************************************************************)
RECURSIVE XorByte(_, _)
XorByte(a, b) ==
    IF a = 0 THEN b
    ELSE IF b = 0 THEN a
    ELSE ((a + b) % 2) + 2 * XorByte(a \div 2, b \div 2)

\* The XOR of every pair of bytes, computed once.
XorTable == [a \in 0..255 |-> [b \in 0..255 |-> XorByte(a, b)]]

XorBlock(x, y) == [i \in 1..AES_BLOCK_SIZE |-> XorTable[x[i]][y[i]]]

\* (n as u32).to_le_bytes()
\* The four bytes keep n modulo 2^32.
U32ToLeBytes(n) ==
    << n % 256, (n \div 256) % 256, (n \div 65536) % 256, (n \div 16777216) % 256 >>

\* A plausible slip: the prefix is read big-endian.
U32FromBeBytes(b) == [lo |-> b[4] + 256 * b[3], hi |-> b[2] + 256 * b[1]]

\* u32::from_le_bytes([b0, b1, b2, b3]) as usize, kept as two 16-bit halves
\* (value = hi * 65536 + lo) so that every 32-bit value is representable.
U32FromLeBytes(b) == [lo |-> b[1] + 256 * b[2], hi |-> b[3] + 256 * b[4]]

\* original_len + 4 > n, on a usize wide enough for the sum.
LenPlus4Exceeds(original_len, n) ==
    LET s  == original_len.lo + 4
        sh == original_len.hi + (s \div 65536)
        sl == s % 65536
    IN  sh > n \div 65536 \/ (sh = n \div 65536 /\ sl > n % 65536)

U32Value(original_len) == original_len.hi * 65536 + original_len.lo

Zeros(n) == [i \in 1..n |-> 0]

(***************************************************************************)
(* The key-manager service behind KeyManagerClient: AES-256 as a keyed     *)
(* permutation of 16-byte blocks, and its CBC chunk commands, which write  *)
(* the chaining value back into the IV parameter.                          *)
(***************************************************************************)
AesEncryptBlock(key, b) ==
    [i \in 1..AES_BLOCK_SIZE |->
        (b[(i % AES_BLOCK_SIZE) + 1] + key[i] + 3 * key[i + AES_BLOCK_SIZE]) % 256]

AesDecryptBlock(key, c) ==
    [j \in 1..AES_BLOCK_SIZE |->
        LET i == ((j + AES_BLOCK_SIZE - 2) % AES_BLOCK_SIZE) + 1
        IN  (c[i] + 1024 - key[i] - 3 * key[i + AES_BLOCK_SIZE]) % 256]

RECURSIVE CbcEncrypt(_, _, _)
CbcEncrypt(key, iv, input) ==
    IF Len(input) = 0 THEN <<>>
    ELSE LET c == AesEncryptBlock(key, XorBlock(SubSeq(input, 1, AES_BLOCK_SIZE), iv))
         IN  c \o CbcEncrypt(key, c, SubSeq(input, AES_BLOCK_SIZE + 1, Len(input)))

RECURSIVE CbcDecrypt(_, _, _)
CbcDecrypt(key, iv, input) ==
    IF Len(input) = 0 THEN <<>>
    ELSE LET c == SubSeq(input, 1, AES_BLOCK_SIZE)
         IN  XorBlock(AesDecryptBlock(key, c), iv)
                \o CbcDecrypt(key, c, SubSeq(input, AES_BLOCK_SIZE + 1, Len(input)))

LastBlock(iv, s) ==
    IF Len(s) = 0 THEN iv ELSE SubSeq(s, Len(s) - AES_BLOCK_SIZE + 1, Len(s))

\* Command::EncryptAesChunk: output (Arg1) and the updated IV (Arg2).
EncryptAesChunk(key, input, iv) ==
    IF key = NoKey THEN [rc |-> "ItemNotFound", out |-> <<>>, iv |-> iv]
    ELSE LET out == CbcEncrypt(key, iv, input)
         IN  [rc |-> "Ok", out |-> out, iv |-> LastBlock(iv, out)]

\* Command::DecryptAesChunk: output (Arg1) and the updated IV (Arg2).
DecryptAesChunk(key, input, iv) ==
    IF key = NoKey THEN [rc |-> "ItemNotFound", out |-> <<>>, iv |-> iv]
    ELSE [rc |-> "Ok", out |-> CbcDecrypt(key, iv, input), iv |-> LastBlock(iv, input)]

(***************************************************************************)
(* KeyManagerClient (ta/inference/src/key_manager.rs).  The client's key   *)
(* is NoKey or a 32-byte key.                                              *)
(***************************************************************************)
has_aes_key(key) == key # NoKey

\* A plausible slip: the absent key is not generated.
ensure_aes_key_keeps(key, gen) == key

\* The key in place after ensure_aes_key: generated (gen) when absent.
ensure_aes_key(key, gen) == IF ~has_aes_key(key) THEN gen ELSE key

require_aes_key(key) == IF ~has_aes_key(key) THEN Rc("ItemNotFound") ELSE Rc("Ok")

\* What encrypt_chunk and decrypt_chunk make of the reply r of the service:
\* its error, or the bytes written and the IV written back.
ChunkReply(r, iv) ==
    IF r.rc # "Ok"
    THEN [rc |-> r.rc, size |-> 0, out |-> <<>>, iv |-> iv]
    ELSE IF Len(r.iv) # AES_BLOCK_SIZE
    THEN [rc |-> "BadParameters", size |-> 0, out |-> <<>>, iv |-> iv]
    ELSE [rc |-> "Ok", size |-> Len(r.out), out |-> r.out, iv |-> r.iv]

encrypt_chunk(key, input, iv) ==
    IF Len(input) % AES_BLOCK_SIZE # 0
    THEN [rc |-> "BadParameters", size |-> 0, out |-> <<>>, iv |-> iv]
    ELSE ChunkReply(EncryptAesChunk(key, input, iv), iv)

decrypt_chunk(key, input, iv) ==
    IF Len(input) % AES_BLOCK_SIZE # 0
    THEN [rc |-> "BadParameters", size |-> 0, out |-> <<>>, iv |-> iv]
    ELSE ChunkReply(DecryptAesChunk(key, input, iv), iv)

\* A plausible slip: every window starts again from the generated IV.
NextIvStale(r, iv) == iv

\* The IV handed to the next window: the one encrypt_chunk wrote back.
NextIv(r, iv) == r.iv

\* The while loop of encrypt_data over windows of chunk_size bytes.
RECURSIVE encrypt_windows(_, _, _, _, _, _)
encrypt_windows(key, buf, offset, iv, result, chunk_size) ==
    IF ~(offset < Len(buf)) THEN [rc |-> "Ok", out |-> result]
    ELSE LET end   == Min(offset + chunk_size, Len(buf))
             chunk == SubSeq(buf, offset + 1, end)
             r     == encrypt_chunk(key, chunk, iv)
         IN  IF r.rc # "Ok" THEN [rc |-> r.rc, out |-> <<>>]
             ELSE encrypt_windows(key, buf, end, NextIv(r, iv),
                                  result \o SubSeq(r.out, 1, r.size), chunk_size)

\* len:u32-LE || data, zero-padded to the block size.
PadWithLen(data) ==
    LET data_with_len == U32ToLeBytes(Len(data)) \o data
        padded_len    == ((Len(data_with_len) + AES_BLOCK_SIZE - 1) \div AES_BLOCK_SIZE)
                            * AES_BLOCK_SIZE
    IN  data_with_len \o Zeros(padded_len - Len(data_with_len))

\* encrypt_data with the protocol constant as a parameter; key is the
\* client's key after ensure_aes_key, iv the result of generate_iv.
encrypt_data_w(key, data, iv, chunk) ==
    encrypt_windows(key, PadWithLen(data), 0, iv, iv, Max(chunk, AES_BLOCK_SIZE))

encrypt_data(key, data, iv) == encrypt_data_w(key, data, iv, CHUNK_SIZE)

\* The while loop of decrypt_data.
RECURSIVE decrypt_windows(_, _, _, _, _, _)
decrypt_windows(key, ciphertext, offset, iv, decrypted, chunk_size) ==
    IF ~(offset < Len(ciphertext)) THEN [rc |-> "Ok", out |-> decrypted, calls |-> 0]
    ELSE LET end   == Min(offset + chunk_size, Len(ciphertext))
             chunk == SubSeq(ciphertext, offset + 1, end)
             r     == decrypt_chunk(key, chunk, iv)
         IN  IF r.rc # "Ok" THEN [rc |-> r.rc, out |-> <<>>, calls |-> 1]
             ELSE LET rest == decrypt_windows(key, ciphertext, end, r.iv,
                                  decrypted \o SubSeq(r.out, 1, r.size), chunk_size)
                  IN  [rest EXCEPT !.calls = @ + 1]

\* A plausible slip: the length prefix is returned with the data.
StripPrefixKeepsLen(decrypted, original_len) == SubSeq(decrypted, 1, original_len)

\* The slice decrypt_data returns once the prefix has been validated.
StripPrefix(decrypted, original_len) == SubSeq(decrypted, 5, 4 + original_len)

\* A plausible slip: the alignment of the ciphertext portion is not checked.
NotBlockAlignedUnchecked(ciphertext) == FALSE

\* ciphertext.len() % AES_BLOCK_SIZE != 0
NotBlockAligned(ciphertext) == Len(ciphertext) % AES_BLOCK_SIZE # 0

\* The end of decrypt_data: d is what the while loop returned.
DecryptedSlice(d) ==
    IF d.rc # "Ok" THEN [rc |-> d.rc, out |-> <<>>, calls |-> d.calls]
    ELSE IF Len(d.out) < 4
    THEN [rc |-> "BadParameters", out |-> <<>>, calls |-> d.calls]
    ELSE LET original_len == U32FromLeBytes(d.out)
         IN  IF LenPlus4Exceeds(original_len, Len(d.out))
             THEN [rc |-> "BadParameters", out |-> <<>>, calls |-> d.calls]
             ELSE [rc |-> "Ok",
                   out |-> StripPrefix(d.out, U32Value(original_len)),
                   calls |-> d.calls]

\* The result carries calls, the number of decrypt_chunk calls made.
decrypt_data_w(key, encrypted, chunk) ==
    IF require_aes_key(key).rc # "Ok"
    THEN [rc |-> "ItemNotFound", out |-> <<>>, calls |-> 0]
    ELSE IF Len(encrypted) < AES_BLOCK_SIZE * 2
    THEN [rc |-> "BadParameters", out |-> <<>>, calls |-> 0]
    ELSE LET iv         == SubSeq(encrypted, 1, AES_BLOCK_SIZE)
             ciphertext == SubSeq(encrypted, AES_BLOCK_SIZE + 1, Len(encrypted))
         IN  IF NotBlockAligned(ciphertext)
             THEN [rc |-> "BadParameters", out |-> <<>>, calls |-> 0]
             ELSE DecryptedSlice(decrypt_windows(key, ciphertext, 0, iv, <<>>,
                                                 Max(chunk, AES_BLOCK_SIZE)))

decrypt_data(key, encrypted) == decrypt_data_w(key, encrypted, CHUNK_SIZE)

(***************************************************************************)
(* Inputs.                                                                 *)
(***************************************************************************)
KeyOf(s) == [i \in 1..AES_KEY_SIZE |-> (41 * s + i * (s + 2)) % 256]

IvOf(s) == [i \in 1..AES_BLOCK_SIZE |-> (s * 29 + i * 5) % 256]

DataOf(n, s) == [i \in 1..n |-> (s * 13 + i * (2 * s + 1)) % 256]

Keys == {KeyOf(s) : s \in 1..NumKeys}

IVs == {IvOf(1), IvOf(2)}

None == <<>>

Some(v) == <<v>>

IsSome(o) == o # None

Unwrap(o) == o[1]

(***************************************************************************)
(* State.  KEY_MANAGER, MODEL and MODEL_BUF are the statics of             *)
(* ta/inference/src/main.rs; keyObj and modelObj are the two persistent    *)
(* objects of secure_storage.rs, which outlive the enclave process.        *)
(***************************************************************************)
VARIABLES
    crypto,       \* SpecCrypto: one encrypt_data / decrypt_data run
    KEY_MANAGER,  \* Option<KeyManager>: None or Some(key)
    MODEL,        \* Option<Model>: None or Some(record bytes the model was imported from)
    MODEL_BUF,    \* Vec<u8>
    keyObj,       \* persistent object "ta_unique_aes_key": None or Some(bytes)
    modelObj,     \* persistent object "ta_persisted_model": None or Some(bytes)
    call,         \* the last command invoked: id, session, input parameter
    res,          \* its result: return code, output parameter, decrypted bytes (finalize)
    load,         \* history: the session whose begin opened the current load, and its pushes
    everLoaded,   \* history: a finalize has returned Ok (kept across restarts)
    host,         \* SpecE2E: the host command being run
    features,     \* cargo features of the enclave build: [encrypt_model |-> BOOLEAN]
    stored,       \* SpecStorage history: what each object's last successful store wrote
    threads       \* SpecThreads: handlers running statement by statement, and the locks

taVars == <<KEY_MANAGER, MODEL, MODEL_BUF, keyObj, modelObj>>

vars == <<crypto, KEY_MANAGER, MODEL, MODEL_BUF, keyObj, modelObj, call, res, load,
          everLoaded, host, features, threads, stored>>

Result(code, out, plain) == [rc |-> code, out |-> out, plain |-> plain]

Fail(code) == Result(code, <<>>, <<>>)

Ok == Result("Ok", <<>>, <<>>)

HostIdle == [pc |-> "none"]

CryptoIdle == [pc |-> "idle"]

(***************************************************************************)
(* Secure storage (ta/inference/src/secure_storage.rs).                    *)
(***************************************************************************)
\* What one storage call can meet: no fault, or a failure of the named
\* step (create, write, open, info, read), or a read that returns fewer
\* bytes than asked for (short).
StorageFaults == {"none", "create", "write", "open", "info", "read", "short"}

\* A plausible slip: create without OVERWRITE semantics keeps the old data.
ObjCreateKeeps(obj) == IF obj = None THEN Some(<<>>) ELSE obj

\* PersistentObject::create with DataFlag::OVERWRITE and empty initial data.
ObjCreate(obj) == Some(<<>>)

\* object.write(data) at the start of the object's data stream.
ObjWrite(obj, data) ==
    LET old == Unwrap(obj)
    IN  Some(data \o SubSeq(old, Len(data) + 1, Len(old)))

\* PersistentObject::open(.., DataFlag::ACCESS_READ): the error, or "Ok".
OpenRead(obj, fault) ==
    IF ~IsSome(obj) THEN "ItemNotFound"
    ELSE IF fault = "open" THEN "AccessConflict"
    ELSE "Ok"

\* create then write, each of which may fail: the result and the object
\* left behind.
StoreObject(obj, data, fault) ==
    IF fault = "create" THEN [rc |-> "StorageNoSpace", obj |-> obj]
    ELSE IF fault = "write" THEN [rc |-> "StorageNoSpace", obj |-> ObjCreate(obj)]
    ELSE [rc |-> "Ok", obj |-> ObjWrite(ObjCreate(obj), data)]

store_ta_aes_key_at(obj, aes_key, fault) == StoreObject(obj, aes_key, fault)

store_ta_aes_key(obj, aes_key) == store_ta_aes_key_at(obj, aes_key, "none").obj

load_ta_aes_key_at(obj, fault) ==
    IF OpenRead(obj, fault) # "Ok" THEN [rc |-> OpenRead(obj, fault), val |-> <<>>]
    ELSE IF fault = "info" THEN [rc |-> "Generic", val |-> <<>>]
    ELSE IF Len(Unwrap(obj)) # 32 THEN [rc |-> "BadParameters", val |-> <<>>]
    ELSE IF fault = "read" THEN [rc |-> "Generic", val |-> <<>>]
    ELSE LET read_bytes == IF fault = "short" THEN 31 ELSE 32
         IN  IF read_bytes # 32 THEN [rc |-> "BadParameters", val |-> <<>>]
             ELSE [rc |-> "Ok", val |-> Unwrap(obj)]

load_ta_aes_key(obj) == load_ta_aes_key_at(obj, "none")

\* A plausible slip: an open error is not told apart from success.
ta_aes_key_exists_blind(obj, fault) == IsSome(obj)

ta_aes_key_exists_at(obj, fault) == OpenRead(obj, fault) = "Ok"

ta_aes_key_exists(obj) == ta_aes_key_exists_at(obj, "none")

store_model_bytes_at(obj, model, fault) == StoreObject(obj, model, fault)

store_model_bytes(obj, model) == store_model_bytes_at(obj, model, "none").obj

load_model_bytes_at(obj, fault) ==
    IF OpenRead(obj, fault) # "Ok" THEN [rc |-> OpenRead(obj, fault), val |-> <<>>]
    ELSE IF fault = "info" THEN [rc |-> "Generic", val |-> <<>>]
    ELSE IF fault = "read" THEN [rc |-> "Generic", val |-> <<>>]
    ELSE LET size == Len(Unwrap(obj))
             read == IF fault = "short" /\ size > 0 THEN size - 1 ELSE size
         IN  IF read # size THEN [rc |-> "ShortBuffer", val |-> <<>>]
             ELSE [rc |-> "Ok", val |-> Unwrap(obj)]

load_model_bytes(obj) == load_model_bytes_at(obj, "none")

model_bytes_exists_at(obj, fault) == OpenRead(obj, fault) = "Ok"

model_bytes_exists(obj) == model_bytes_exists_at(obj, "none")

\* export_ta_aes_key(): the stored key object read back (the table of
\* commands: "key exists in storage -> returns raw key bytes").
export_ta_aes_key(obj) == load_ta_aes_key(obj)

(***************************************************************************)
(* The model record and the inference engine (ta/common/src/model.rs).     *)
(***************************************************************************)
\* Model::import succeeds on a well-formed record: the magic byte, the
\* payload length, and exactly that many payload bytes.
ImportOk(record) ==
    /\ Len(record) >= 2
    /\ record[1] = RECORD_MAGIC
    /\ record[2] = Len(record) - 2

RECURSIVE SumBytes(_)
SumBytes(s) == IF Len(s) = 0 THEN 0 ELSE s[1] + SumBytes(Tail(s))

\* forward + softmax + argmax for one image: a class byte fixed by the
\* model and the image.
Classify(record, image) == (SumBytes(record) + image) % 10

\* KeyManager::new(key): a key manager holding key.
KeyManager_new(key) == Some(key)

(***************************************************************************)
(* Command handlers of ta/inference/src/main.rs.  Each handler is the      *)
(* whole command: it sets the next enclave state and the result.           *)
(***************************************************************************)
ensure_key_manager ==
    IF ~ta_aes_key_exists(keyObj) THEN [rc |-> "ItemNotFound", km |-> KEY_MANAGER]
    ELSE IF KEY_MANAGER = None
         THEN LET aes_key == load_ta_aes_key(keyObj)
              IN  IF aes_key.rc # "Ok" THEN [rc |-> aes_key.rc, km |-> KEY_MANAGER]
                  ELSE [rc |-> "Ok", km |-> KeyManager_new(aes_key.val)]
         ELSE [rc |-> "Ok", km |-> KEY_MANAGER]

\* copy_to_output(&mut params.1, &result) with an output buffer of cap bytes.
copy_to_output(cap, result) ==
    IF cap < Len(result) THEN Fail("ShortBuffer") ELSE Result("Ok", result, <<>>)

\* A plausible slip: every row of the output is read at index 0.
ClassBytesOfFirst(model, images) ==
    [i \in 1..Len(images) |-> Classify(model, images[1])]

\* output.iter_dim(0).map(softmax, argmax).collect(): one class byte per
\* image, in input order.
ClassBytes(model, images) ==
    [i \in 1..Len(images) |-> Classify(model, images[i])]

invoke_inference(images, cap) ==
    /\ UNCHANGED taVars
    /\ res' = IF Len(images) = 0 THEN Fail("BadParameters")
              ELSE IF MODEL = None THEN Fail("CorruptObject")
              ELSE copy_to_output(cap, ClassBytes(Unwrap(MODEL), images))

\* A plausible slip: the key is written to the output in front of the
\* ciphertext.
EncryptModelOutputWithKey(aes_key, encrypted_model) == aes_key \o encrypted_model

\* p1.buffer()[..encrypted_model.len()].copy_from_slice(&encrypted_model)
EncryptModelOutput(aes_key, encrypted_model) == encrypted_model

\* The end of encrypt_model: encrypted_model is what encrypt_data returned,
\* cap the size of the output buffer.
EncryptModelReply(aes_key, encrypted_model, cap) ==
    IF encrypted_model.rc # "Ok" THEN Fail(encrypted_model.rc)
    ELSE IF cap < Len(encrypted_model.out) THEN Fail("ShortBuffer")
    ELSE Result("Ok", EncryptModelOutput(aes_key, encrypted_model.out), <<>>)

invoke_encrypt_model(model_data, cap, gen, iv) ==
    LET exists == ta_aes_key_exists(keyObj)
        loaded == load_ta_aes_key(keyObj)
    IN  IF exists /\ loaded.rc # "Ok"
        THEN UNCHANGED taVars /\ res' = Fail(loaded.rc)
        ELSE LET aes_key == IF exists THEN loaded.val ELSE gen
                 key_manager == KeyManager_new(aes_key)
                 encrypted_model == encrypt_data(Unwrap(key_manager), model_data, iv)
             IN  /\ keyObj' = IF exists THEN keyObj ELSE store_ta_aes_key(keyObj, gen)
                 /\ UNCHANGED <<KEY_MANAGER, MODEL, MODEL_BUF, modelObj>>
                 /\ res' = EncryptModelReply(aes_key, encrypted_model, cap)

\* A plausible slip: only an over-long key buffer is refused.
KeySizeAtMost(key_buf) == Len(key_buf) <= 32

\* key_buf.len() != 32 is refused.
KeySizeOk(key_buf) == Len(key_buf) = 32

invoke_store_key(key_buf) ==
    IF ~KeySizeOk(key_buf)
    THEN UNCHANGED taVars /\ res' = Fail("BadParameters")
    ELSE /\ keyObj' = store_ta_aes_key(keyObj, key_buf)
         /\ KEY_MANAGER' = KeyManager_new(key_buf)
         /\ UNCHANGED <<MODEL, MODEL_BUF, modelObj>>
         /\ res' = Ok

\* A plausible slip: the size of the output buffer is not compared.
ExportBufferNeverShort(cap, key) == FALSE

\* p0.buffer().len() < key.len()
ExportBufferShort(cap, key) == cap < Len(key)

invoke_export_aes_key(cap) ==
    /\ UNCHANGED taVars
    /\ res' = LET key == export_ta_aes_key(keyObj)
              IN  IF key.rc # "Ok" THEN Fail(key.rc)
                  ELSE IF ExportBufferShort(cap, key.val) THEN Fail("ShortBuffer")
                  ELSE Result("Ok", key.val, <<>>)

\* A plausible slip: begin forgets to clear the buffer.
BufClearForgotten(buf) == buf

\* buf.clear()
BufClear(buf) == <<>>

invoke_begin_model_load ==
    LET e == ensure_key_manager
    IN  /\ KEY_MANAGER' = e.km
        /\ MODEL_BUF' = IF e.rc # "Ok" THEN MODEL_BUF ELSE BufClear(MODEL_BUF)
        /\ UNCHANGED <<MODEL, keyObj, modelObj>>
        /\ res' = IF e.rc # "Ok" THEN Fail(e.rc) ELSE Ok

\* A plausible slip: the chunk replaces the buffer.
BufExtendReplaces(buf, enc) == enc

\* buf.extend_from_slice(enc)
BufExtend(buf, enc) == buf \o enc

\* A plausible slip: a push drops the resident model that the load is about
\* to replace.
invoke_push_dropping_model(enc) ==
    /\ MODEL_BUF' = IF Len(enc) = 0 THEN MODEL_BUF ELSE BufExtend(MODEL_BUF, enc)
    /\ MODEL' = None
    /\ UNCHANGED <<KEY_MANAGER, keyObj, modelObj>>
    /\ res' = Ok

invoke_push_encrypted_chunk(enc) ==
    /\ MODEL_BUF' = IF Len(enc) = 0 THEN MODEL_BUF ELSE BufExtend(MODEL_BUF, enc)
    /\ UNCHANGED <<KEY_MANAGER, MODEL, keyObj, modelObj>>
    /\ res' = Ok

\* A plausible slip: the model slot is emptied before the import is tried.
ModelAfterImportEager(model, plain) ==
    IF plain.rc = "Ok" /\ ImportOk(plain.out) THEN Some(plain.out) ELSE None

\* The resident model after the import of the decrypted bytes: replaced
\* only when decrypt_data and Model::import both succeeded.
ModelAfterImport(model, plain) ==
    IF plain.rc = "Ok" /\ ImportOk(plain.out) THEN Some(plain.out) ELSE model

\* A plausible slip: the buffer is emptied before it is read.
TakenBufferAfterClear(buf) == <<>>

\* core::mem::take(&mut *buf): the whole buffer; the static is left empty.
TakenBuffer(buf) == buf

\* The end of finalize_model_load: plain is what decrypt_data returned for
\* the bytes taken from the buffer.
ImportDecrypted(plain) ==
    /\ MODEL_BUF' = <<>>
    /\ MODEL' = ModelAfterImport(MODEL, plain)
    /\ res' = IF plain.rc # "Ok" THEN Fail(plain.rc)
              ELSE IF ~ImportOk(plain.out)
                   THEN Result("BadParameters", <<>>, plain.out)
                   ELSE Result("Ok", <<>>, plain.out)

invoke_finalize_model_load ==
    LET e == ensure_key_manager
    IN  IF e.rc # "Ok"
        THEN /\ KEY_MANAGER' = e.km
             /\ UNCHANGED <<MODEL, MODEL_BUF, keyObj, modelObj>>
             /\ res' = Fail(e.rc)
        ELSE /\ KEY_MANAGER' = e.km
             /\ ImportDecrypted(decrypt_data(Unwrap(e.km), TakenBuffer(MODEL_BUF)))
             /\ UNCHANGED <<keyObj, modelObj>>

\* A plausible slip: the arm for command 1 is compiled into every build.
HasEncryptModelArmAlways == TRUE

\* #[cfg(feature = "encrypt-model")] on the arm for command 1.
HasEncryptModelArm == features.encrypt_model

\* invoke_command; the arm for command 1 exists only in a build with the
\* encrypt-model feature.  p0 is the input parameter,
\* cap the size of the output buffer, gen and iv what the random source
\* returns if the handler asks for a key or an IV.
invoke_command(cmd_id, p0, cap, gen, iv) ==
    CASE cmd_id = 0 -> invoke_inference(p0, cap)
      [] cmd_id = 1 /\ HasEncryptModelArm -> invoke_encrypt_model(p0, cap, gen, iv)
      [] cmd_id = 3 -> invoke_store_key(p0)
      [] cmd_id = 4 -> invoke_begin_model_load
      [] cmd_id = 5 -> invoke_push_encrypted_chunk(p0)
      [] cmd_id = 6 -> invoke_finalize_model_load
      [] cmd_id = 7 -> invoke_export_aes_key(cap)
      [] OTHER -> UNCHANGED taVars /\ res' = Fail("BadParameters")


(***************************************************************************)
(* Inputs of the sessions.                                                 *)
(***************************************************************************)
\* A well-formed record with n payload bytes.
ModelRecord(n, s) == <<RECORD_MAGIC, n>> \o DataOf(n, s)

Records == {ModelRecord(1, 1), ModelRecord(2, 2), <<1, 2, 3>>}

\* What a host can hold: the single-blob ciphertexts of the records.
Blobs == {encrypt_data(k, r, IvOf(1)).out : k \in Keys, r \in Records}

\* The pieces a host may cut a blob into: inside the IV, at the end of the
\* IV, or not at all.
CutPoints(blob) == {0, 5, AES_BLOCK_SIZE, Len(blob)}

PiecesOf(blob) ==
    {SubSeq(blob, c[1] + 1, c[2]) : c \in {d \in CutPoints(blob) \X CutPoints(blob) : d[1] < d[2]}}

Chunks == {<<>>} \cup UNION {PiecesOf(b) : b \in Blobs}

KeyBuffers == Keys \cup {SubSeq(KeyOf(1), 1, AES_KEY_SIZE - 1)}

ImageBatches == {<<>>, <<1>>, <<1, 2>>}

Sessions == {1, 2}

CMD_RESTART == 0 - 1

CMD_NONE == 0 - 2

Call(cmd, s, p0) == [cmd |-> cmd, sess |-> s, p0 |-> p0]

(***************************************************************************)
(* Spec: sessions invoke commands on the enclave, one command at a time;   *)
(* the enclave process may be restarted between commands.                  *)
(***************************************************************************)
NothingStored == [key |-> None, model |-> None, prevModel |-> None]

\* No handler is running statement by statement.
NoThreads == [pc |-> "none"]

\* A new enclave instance on empty secure storage.
TaStart ==
    /\ KEY_MANAGER = None
    /\ MODEL = None
    /\ MODEL_BUF = <<>>
    /\ keyObj = None
    /\ modelObj = None
    /\ call = Call(CMD_NONE, 0, <<>>)
    /\ res = Ok
    /\ load = [phase |-> "idle", owner |-> 0, pushed |-> <<>>]
    /\ everLoaded = FALSE
    /\ stored = NothingStored
    /\ threads = NoThreads

\* The build with the encrypt-model feature, which the host encrypt command
\* needs.
TaInit ==
    /\ TaStart
    /\ features = [encrypt_model |-> TRUE]

Init ==
    /\ TaInit
    /\ crypto = CryptoIdle
    /\ host = HostIdle

Idle == [phase |-> "idle", owner |-> 0, pushed |-> <<>>]

\* Commands that leave the load alone are the same from every session.
CmdInfer ==
    \E images \in ImageBatches :
        /\ call' = Call(0, 0, images)
        /\ invoke_command(0, images, Len(images), NoKey, <<>>)
        /\ UNCHANGED <<load, everLoaded, crypto, host, features, threads, stored>>

CmdEncryptModel ==
    \E gen \in (IF keyObj = None THEN Keys ELSE {KeyOf(1)}), small \in BOOLEAN :
        LET data == ModelRecord(1, 1)
        IN  /\ call' = Call(1, 0, data)
            /\ invoke_command(1, data,
                              IF small THEN AES_BLOCK_SIZE ELSE Len(data) + ENCRYPT_SLACK,
                              gen, IvOf(1))
            /\ UNCHANGED <<load, everLoaded, crypto, host, features, threads, stored>>

CmdStoreKey ==
    \E key_buf \in KeyBuffers :
        /\ call' = Call(3, 0, key_buf)
        /\ invoke_command(3, key_buf, 0, NoKey, <<>>)
        /\ UNCHANGED <<load, everLoaded, crypto, host, features, threads, stored>>

CmdBegin(s) ==
    /\ call' = Call(4, s, <<>>)
    /\ invoke_command(4, <<>>, 0, NoKey, <<>>)
    /\ load' = IF res'.rc = "Ok" THEN [phase |-> "begun", owner |-> s, pushed |-> <<>>]
               ELSE [load EXCEPT !.owner = 0, !.pushed = <<>>]
    /\ UNCHANGED <<everLoaded, crypto, host, features, threads, stored>>

CmdPush(s) ==
    \E enc \in Chunks :
        /\ Len(MODEL_BUF) + Len(enc) <= MaxBuf
        /\ call' = Call(5, s, enc)
        /\ invoke_command(5, enc, 0, NoKey, <<>>)
        /\ load' = IF load.phase = "idle" THEN [load EXCEPT !.phase = "implicit"]
                   ELSE IF load.owner = s THEN [load EXCEPT !.pushed = load.pushed \o enc]
                   ELSE [load EXCEPT !.owner = 0, !.pushed = <<>>]
        /\ UNCHANGED <<everLoaded, crypto, host, features, threads, stored>>

CmdFinalize(s) ==
    /\ call' = Call(6, s, <<>>)
    /\ invoke_command(6, <<>>, 0, NoKey, <<>>)
    /\ load' = Idle
    /\ everLoaded' = (everLoaded \/ res'.rc = "Ok")
    /\ UNCHANGED <<crypto, host, features, threads, stored>>

\* The parameter of export_key is the caller's output buffer of cap bytes.
CmdExportKey ==
    \E cap \in {AES_BLOCK_SIZE, AES_KEY_SIZE} :
        /\ call' = Call(7, 0, Zeros(cap))
        /\ invoke_command(7, <<>>, cap, NoKey, <<>>)
        /\ UNCHANGED <<load, everLoaded, crypto, host, features, threads, stored>>

CmdUnknown ==
    \E cmd_id \in {2, 8} :
        /\ call' = Call(cmd_id, 0, <<>>)
        /\ invoke_command(cmd_id, <<>>, 0, NoKey, <<>>)
        /\ UNCHANGED <<load, everLoaded, crypto, host, features, threads, stored>>

\* The enclave process ends and a new one starts: the statics start over,
\* the persistent objects stay.
Restart ==
    /\ call.cmd # CMD_RESTART
    /\ KEY_MANAGER' = None
    /\ MODEL' = None
    /\ MODEL_BUF' = <<>>
    /\ UNCHANGED <<keyObj, modelObj>>
    /\ call' = Call(CMD_RESTART, 0, <<>>)
    /\ res' = Ok
    /\ load' = Idle
    /\ UNCHANGED <<everLoaded, crypto, host, features, threads, stored>>

Next ==
    \/ CmdInfer
    \/ CmdEncryptModel
    \/ CmdStoreKey
    \/ \E s \in Sessions : CmdBegin(s)
    \/ \E s \in Sessions : CmdPush(s)
    \/ \E s \in Sessions : CmdFinalize(s)
    \/ CmdExportKey
    \/ CmdUnknown
    \/ Restart

Spec == Init /\ [][Next]_vars

(***************************************************************************)
(* Claims about the load state machine, checked under Spec.                *)
(***************************************************************************)
\* C4: a finalize_model_load that returns Ok has replaced the resident
\* model with the model imported from the decrypted bytes and has stored
\* exactly those bytes in the persistent model object.
C4_FinalizePersists ==
    (call.cmd = 6 /\ res.rc = "Ok") =>
        /\ MODEL = Some(res.plain)
        /\ modelObj = Some(res.plain)

\* C5: once a load has succeeded, infer on a non-empty batch succeeds, also
\* after an enclave restart emptied the resident model (lazy recovery from
\* the persisted model bytes).
C5_LazyRecovery ==
    (call.cmd = 0 /\ Len(call.p0) >= 1 /\ everLoaded) => res.rc = "Ok"

\* C6: a finalize_model_load that fails leaves the resident model as it
\* was; the model changes in a finalize only when it returns Ok, and a
\* deserialization failure is reported as BadParameters.
C6_FailedFinalizeKeepsModel ==
    [][call'.cmd = 6 =>
          /\ (res'.rc # "Ok" => MODEL' = MODEL)
          /\ (MODEL' # MODEL => res'.rc = "Ok")
          /\ (res'.rc = "Ok" => MODEL' = Some(res'.plain))
          /\ (res'.plain # <<>> /\ ~ImportOk(res'.plain) => res'.rc = "BadParameters")]_vars

\* A finalize failed on deserialization while a model was resident.
C6_Witness ==
    /\ call.cmd = 6
    /\ res.rc = "BadParameters"
    /\ res.plain # <<>>
    /\ MODEL # None

C8_BufferIsConcatenation ==
    [][/\ (load'.phase = "begun" /\ load'.owner # 0 => MODEL_BUF' = load'.pushed)
       /\ (call'.cmd = 5 => res'.rc = "Ok")
       /\ (call'.cmd = 5 /\ call'.p0 = <<>> => MODEL_BUF' = MODEL_BUF)]_vars

\* The second of two non-empty pushes of one session's load.
C8_Witness ==
    /\ call.cmd = 5
    /\ load.phase = "begun"
    /\ load.owner = call.sess
    /\ Len(call.p0) > 0
    /\ Len(load.pushed) > Len(call.p0)
    /\ MODEL_BUF = load.pushed

\* C9: whenever finalize_model_load has returned, with Ok or with an error,
\* the accumulation buffer is empty.
C9_FinalizeEmptiesBuffer ==
    call.cmd = 6 => MODEL_BUF = <<>>

\* C10: an accepted non-empty push issued while no load is in progress
\* (nothing begun or pushed since the enclave started or since the last
\* finalize) works on an empty buffer: afterwards the buffer holds exactly
\* the pushed bytes, never bytes left over from an earlier load.
C10_PushWhenIdle ==
    [][call'.cmd = 5 /\ load.phase = "idle" /\ Len(call'.p0) > 0
          => MODEL_BUF' = call'.p0]_vars

\* C33: infer, encrypt_model, store_key, export_key and unknown commands
\* leave the accumulation buffer as it is; begin leaves it or clears it,
\* finalize leaves it or takes it, push appends its bytes to it; and push
\* changes neither the resident model, nor the key manager, nor a
\* persistent object.
C33_Frame ==
    [][/\ call'.cmd \in {0, 1, 2, 3, 7, 8} => MODEL_BUF' = MODEL_BUF
       /\ call'.cmd = 4 => MODEL_BUF' = (IF res'.rc = "Ok" THEN <<>> ELSE MODEL_BUF)
       /\ call'.cmd = 6 => MODEL_BUF' \in {<<>>, MODEL_BUF}
       /\ call'.cmd = 5 =>
             /\ MODEL_BUF' = MODEL_BUF \o call'.p0
             /\ UNCHANGED <<MODEL, KEY_MANAGER, keyObj, modelObj>>]_vars

\* An infer has run on the resident model in the middle of a load, and the
\* buffer still holds exactly the bytes pushed so far.
C33_Witness ==
    /\ call.cmd = 0
    /\ res.rc = "Ok"
    /\ MODEL # None
    /\ load.phase = "begun"
    /\ Len(load.pushed) > 0
    /\ MODEL_BUF = load.pushed

\* C20: store_key with a 32-byte buffer K that returns Ok leaves the key
\* object equal to K and the key manager holding K, and a begin_model_load
\* that follows it returns Ok; with a buffer of another length store_key
\* returns BadParameters and the key object and the key manager stay as
\* they were.
C20_StoreKey ==
    [][/\ call'.cmd = 3 =>
              IF Len(call'.p0) = AES_KEY_SIZE
              THEN res'.rc = "Ok" =>
                       /\ keyObj' = Some(call'.p0)
                       /\ KEY_MANAGER' = Some(call'.p0)
              ELSE /\ res'.rc = "BadParameters"
                   /\ UNCHANGED <<keyObj, KEY_MANAGER>>
       /\ (call.cmd = 3 /\ res.rc = "Ok" /\ call'.cmd = 4) =>
              /\ res'.rc = "Ok"
              /\ KEY_MANAGER' = Some(call.p0)]_vars

\* store_key has replaced the key under which the resident model was
\* loaded.
C20_Witness ==
    /\ call.cmd = 3
    /\ res.rc = "Ok"
    /\ call.p0 = KeyOf(2)
    /\ keyObj = Some(KeyOf(2))
    /\ KEY_MANAGER = Some(KeyOf(2))
    /\ MODEL # None

C22_Infer ==
    call.cmd = 0 =>
        IF Len(call.p0) = 0
        THEN res.rc = "BadParameters" /\ res.out = <<>>
        ELSE IF MODEL = None
        THEN res.rc = "CorruptObject" /\ res.out = <<>>
        ELSE /\ res.rc = "Ok"
             /\ Len(res.out) = Len(call.p0)
             /\ \A i \in 1..Len(call.p0) :
                    res.out[i] = (SumBytes(Unwrap(MODEL)) + call.p0[i]) % 10

\* infer returned two different classes for a batch of two images.
C22_Witness ==
    /\ call.cmd = 0
    /\ res.rc = "Ok"
    /\ Len(call.p0) = 2
    /\ Len(res.out) = 2
    /\ res.out[1] # res.out[2]

\* C12: a command 0, 1, 3, 4, 5, 6 or 7 that returns an error leaves the
\* resident model and the persisted key object as they were, and the key
\* manager too (a manager built from the unchanged key object by the lazy
\* load of begin and finalize counts as the same key).
C12_AllOrNothing ==
    [][(call'.cmd \in {0, 1, 3, 4, 5, 6, 7} /\ res'.rc # "Ok") =>
          /\ MODEL' = MODEL
          /\ keyObj' = keyObj
          /\ \/ KEY_MANAGER' = KEY_MANAGER
             \/ /\ KEY_MANAGER = None
                /\ keyObj # None
                /\ KEY_MANAGER' = Some(Unwrap(keyObj))]_vars

(***************************************************************************)
(* SpecE2E: the host encrypt command (host/src/commands/encrypt.rs) writes *)
(* a model file through enclave command 1, then the host infer command     *)
(* (host/src/commands/infer.rs) streams that file into the enclave.        *)
(***************************************************************************)
\* A plausible slip: chunks_exact(n), which leaves the short tail out.
RECURSIVE SliceChunksExact(_, _)
SliceChunksExact(data, n) ==
    IF Len(data) < n THEN <<>>
    ELSE <<SubSeq(data, 1, n)>> \o SliceChunksExact(SubSeq(data, n + 1, Len(data)), n)

\* model_data.chunks(n): consecutive slices of n bytes, the last one shorter.
RECURSIVE SliceChunks(_, _)
SliceChunks(data, n) ==
    IF Len(data) = 0 THEN <<>>
    ELSE <<SubSeq(data, 1, Min(n, Len(data)))>>
            \o SliceChunks(SubSeq(data, Min(n, Len(data)) + 1, Len(data)), n)

\* sorted_chunks.sort_by_key(|c| c.id): a stable sort.
RECURSIVE InsertById(_, _)
InsertById(sorted, c) ==
    IF Len(sorted) = 0 THEN <<c>>
    ELSE IF c.id < sorted[1].id THEN <<c>> \o sorted
    ELSE <<sorted[1]>> \o InsertById(Tail(sorted), c)

\* A plausible slip: the records are sent in file order.
SortByIdKeeps(chunks) == chunks

RECURSIVE SortById(_)
SortById(chunks) ==
    IF Len(chunks) = 0 THEN <<>>
    ELSE InsertById(SortById(SubSeq(chunks, 1, Len(chunks) - 1)), chunks[Len(chunks)])

\* const CHUNK in infer.rs: the transport piece of a single-blob file.
HOST_PUSH_CHUNK == 65536

E2EInit ==
    /\ TaInit
    /\ crypto = CryptoIdle
    /\ host \in [pc : {"encrypt"},
                 model : {ModelRecord(n - 2, 1) : n \in 2..MaxModelLen},
                 i : {0}, chunks : {<<>>}, file : {[kind |-> "none"]},
                 sorted : {<<>>}, j : {0}]

\* A plausible slip: the output buffer is as long as the input.
EncryptOutputCapNoSlack(len) == len

\* vec![0_u8; model_data.len() + 1024]
EncryptOutputCap(len) == len + ENCRYPT_SLACK

\* ModelEncryptorTaConnector::encrypt_model: command 1 with an output
\* buffer of model_data.len() + 1024 bytes, truncated to the written size.
ConnectorEncryptModel(model_data, gen, iv) ==
    /\ call' = Call(1, 1, model_data)
    /\ invoke_command(1, model_data, EncryptOutputCap(Len(model_data)), gen, iv)

\* One iteration of the loop of encrypt_model_chunked.
HostEncryptChunk ==
    /\ host.pc = "encrypt"
    /\ Len(host.model) > ChunkThreshold
    /\ LET chunks == SliceChunks(host.model, CHUNK_SIZE)
       IN  /\ host.i < Len(chunks)
           /\ \E gen \in {KeyOf(1)}, iv \in IVs :
                 ConnectorEncryptModel(chunks[host.i + 1], gen, iv)
           /\ host' = IF res'.rc # "Ok" THEN [host EXCEPT !.pc = "failed"]
                      ELSE [host EXCEPT !.i = host.i + 1,
                               !.chunks = Append(host.chunks,
                                   [id |-> host.i, size |-> Len(chunks[host.i + 1]),
                                    data |-> res'.out])]
    /\ UNCHANGED <<load, everLoaded, crypto, features, threads, stored>>

\* The end of encrypt_model_chunked: the chunked file is written.
HostWriteChunkedFile ==
    /\ host.pc = "encrypt"
    /\ Len(host.model) > ChunkThreshold
    /\ host.i = Len(SliceChunks(host.model, CHUNK_SIZE))
    /\ host' = [host EXCEPT !.pc = "file",
                   !.file = [kind |-> "chunked", chunk_size |-> CHUNK_SIZE,
                             total_chunks |-> Len(SliceChunks(host.model, CHUNK_SIZE)),
                             original_size |-> Len(host.model),
                             chunks |-> host.chunks]]
    /\ UNCHANGED <<taVars, call, res, load, everLoaded, crypto, features, threads, stored>>

\* encrypt_model on a model at or under the threshold: one call, one blob.
HostEncryptSingle ==
    /\ host.pc = "encrypt"
    /\ ~(Len(host.model) > ChunkThreshold)
    /\ \E gen \in {KeyOf(1)}, iv \in IVs : ConnectorEncryptModel(host.model, gen, iv)
    /\ host' = IF res'.rc # "Ok" THEN [host EXCEPT !.pc = "failed"]
               ELSE [host EXCEPT !.pc = "file",
                        !.file = [kind |-> "single", encrypted_data |-> res'.out]]
    /\ UNCHANGED <<load, everLoaded, crypto, features, threads, stored>>

\* infer.rs: begin_model_load, then the chunks sorted by id (or the pieces
\* of the single blob) are queued for sending.
HostInferBegin ==
    /\ host.pc = "file"
    /\ call' = Call(4, 1, <<>>)
    /\ invoke_command(4, <<>>, 0, NoKey, <<>>)
    /\ host' = IF res'.rc # "Ok" THEN [host EXCEPT !.pc = "failed"]
               ELSE [host EXCEPT !.pc = "push", !.j = 0,
                        !.sorted = IF host.file.kind = "chunked"
                                   THEN [k \in 1..Len(host.file.chunks) |->
                                            SortById(host.file.chunks)[k].data]
                                   ELSE SliceChunks(host.file.encrypted_data,
                                                    HOST_PUSH_CHUNK)]
    /\ UNCHANGED <<load, everLoaded, crypto, features, threads, stored>>

HostInferPush ==
    /\ host.pc = "push"
    /\ host.j < Len(host.sorted)
    /\ call' = Call(5, 1, host.sorted[host.j + 1])
    /\ invoke_command(5, host.sorted[host.j + 1], 0, NoKey, <<>>)
    /\ host' = IF res'.rc # "Ok" THEN [host EXCEPT !.pc = "failed"]
               ELSE [host EXCEPT !.j = host.j + 1]
    /\ UNCHANGED <<load, everLoaded, crypto, features, threads, stored>>

HostInferFinalize ==
    /\ host.pc = "push"
    /\ host.j = Len(host.sorted)
    /\ call' = Call(6, 1, <<>>)
    /\ invoke_command(6, <<>>, 0, NoKey, <<>>)
    /\ host' = [host EXCEPT !.pc = "finalized"]
    /\ everLoaded' = (everLoaded \/ res'.rc = "Ok")
    /\ UNCHANGED <<load, crypto, features, threads, stored>>

E2ENext ==
    \/ HostEncryptChunk
    \/ HostWriteChunkedFile
    \/ HostEncryptSingle
    \/ HostInferBegin
    \/ HostInferPush
    \/ HostInferFinalize

SpecE2E == E2EInit /\ [][E2ENext]_vars

\* C1: when the host infer command has streamed a chunked file written by
\* encrypt_model_chunked and finalize has returned, the enclave has
\* decrypted exactly the original model bytes.
C1_ChunkedEndToEnd ==
    (host.pc = "finalized" /\ host.file.kind = "chunked") =>
        /\ res.rc = "Ok"
        /\ res.plain = host.model
        /\ MODEL = Some(host.model)

RECURSIVE SumSizes(_)
SumSizes(chunks) ==
    IF Len(chunks) = 0 THEN 0 ELSE chunks[1].size + SumSizes(Tail(chunks))

\* C28: the chunked file written by encrypt_model_chunked for a model of N
\* bytes has chunk_size CHUNK_SIZE, original_size N, ceil(N / CHUNK_SIZE)
\* chunk records with the ids 0, 1, ... in order, and sizes that are
\* CHUNK_SIZE except for the last and add up to N.
C28_ChunkedFile ==
    host.file.kind = "chunked" =>
        LET f == host.file
            N == Len(host.model)
        IN  /\ f.chunk_size = CHUNK_SIZE
            /\ f.original_size = N
            /\ f.total_chunks = (N + CHUNK_SIZE - 1) \div CHUNK_SIZE
            /\ f.total_chunks = Len(f.chunks)
            /\ \A k \in 1..Len(f.chunks) :
                  /\ f.chunks[k].id = k - 1
                  /\ k < Len(f.chunks) => f.chunks[k].size = CHUNK_SIZE
                  /\ f.chunks[k].size \in 1..CHUNK_SIZE
            /\ SumSizes(f.chunks) = N

\* A file of three chunks whose last chunk is short has been written.
C28_Witness ==
    /\ host.pc = "file"
    /\ host.file.kind = "chunked"
    /\ host.file.total_chunks = 3
    /\ host.file.chunks[3].size \in 1..(CHUNK_SIZE - 1)
    /\ host.file.original_size = 2 * CHUNK_SIZE + host.file.chunks[3].size

(***************************************************************************)
(* SpecCrypto: encrypt_data then decrypt_data on one client.               *)
(***************************************************************************)
CryptoWindows == {4} \cup {b * AES_BLOCK_SIZE : b \in 1..ChunkBlocks}

CryptoInit ==
    /\ TaInit
    /\ host = HostIdle
    /\ crypto \in [pc : {"in"}, key : Keys \cup {NoKey}, gen : {KeyOf(1)},
                   iv : IVs,
                   data : {DataOf(n, s) : n \in 0..MaxPlainLen, s \in {1, 2}},
                   chunk : CryptoWindows, enc : {Rc("None")}, dec : {Rc("None")}]

CryptoEncrypt ==
    /\ crypto.pc = "in"
    /\ LET k == ensure_aes_key(crypto.key, crypto.gen)
       IN  crypto' = [crypto EXCEPT !.pc = "enc", !.key = k,
                         !.enc = encrypt_data_w(k, crypto.data, crypto.iv, crypto.chunk)]
    /\ UNCHANGED <<taVars, call, res, load, everLoaded, host, features, threads, stored>>

CryptoDecrypt ==
    /\ crypto.pc = "enc"
    /\ crypto.enc.rc = "Ok"
    /\ crypto' = [crypto EXCEPT !.pc = "dec",
                     !.dec = decrypt_data_w(crypto.key, crypto.enc.out, crypto.chunk)]
    /\ UNCHANGED <<taVars, call, res, load, everLoaded, host, features, threads, stored>>

CryptoNext == CryptoEncrypt \/ CryptoDecrypt

SpecCrypto == CryptoInit /\ [][CryptoNext]_vars

\* C2: decrypt_data(encrypt_data(P)) under the same key returns exactly P,
\* for every plaintext length, key and window size.
C2_RoundTrip ==
    crypto.pc = "dec" => (crypto.dec.rc = "Ok" /\ crypto.dec.out = crypto.data)

\* A round trip of a plaintext spanning several windows, not block-aligned.
C2_Witness ==
    /\ crypto.pc = "dec"
    /\ crypto.dec.rc = "Ok"
    /\ Len(crypto.data) > 2 * CHUNK_SIZE - 4
    /\ (Len(crypto.data) + 4) % AES_BLOCK_SIZE # 0
    /\ crypto.chunk = CHUNK_SIZE

MaxCipherLen == 50

\* Forged length prefixes range past the longest forged body.
MaxForgedLen == 30

ForgedBodies == {DataOf(12, 2), DataOf(28, 2)}

ForgedPrefixes ==
    {U32ToLeBytes(L) : L \in 0..MaxForgedLen}
        \cup {<<255, 255, 255, 255>>, <<0, 0, 1, 0>>, <<251, 255, 255, 255>>}

DecryptInputs ==
    {DataOf(n, 1) : n \in 0..MaxCipherLen}
        \cup {IvOf(1) \o CbcEncrypt(k, IvOf(1), p \o b) :
                  k \in Keys, p \in ForgedPrefixes, b \in ForgedBodies}

DecryptInit ==
    /\ TaInit
    /\ host = HostIdle
    /\ crypto \in {[pc |-> "din", key |-> k, key0 |-> k, gen |-> KeyOf(2),
                    iv |-> IvOf(2), input |-> x, chunk |-> w,
                    enc |-> Rc("None"), dec |-> Rc("None")] :
                       k \in Keys \cup {NoKey}, x \in DecryptInputs, w \in CryptoWindows}

\* decrypt_data(input): the client's key is only probed.
DecryptInput ==
    /\ crypto.pc = "din"
    /\ crypto' = [crypto EXCEPT !.pc = "ddec",
                     !.dec = decrypt_data_w(crypto.key, crypto.input, crypto.chunk)]
    /\ UNCHANGED <<taVars, call, res, load, everLoaded, host, features, threads, stored>>

\* encrypt_data(input): ensure_aes_key leaves a key in place.
EncryptInput ==
    /\ crypto.pc = "din"
    /\ LET k == ensure_aes_key(crypto.key, crypto.gen)
       IN  crypto' = [crypto EXCEPT !.pc = "denc", !.key = k,
                         !.enc = encrypt_data_w(k, crypto.input, crypto.iv, crypto.chunk)]
    /\ UNCHANGED <<taVars, call, res, load, everLoaded, host, features, threads, stored>>

DecryptNext == DecryptInput \/ EncryptInput

SpecDecrypt == DecryptInit /\ [][DecryptNext]_vars

\* The input is shorter than two blocks or its ciphertext portion is not
\* block-aligned.
BadShape(input) ==
    Len(input) < 2 * AES_BLOCK_SIZE \/ (Len(input) - AES_BLOCK_SIZE) % AES_BLOCK_SIZE # 0

\* C14 as stated: decrypt_data returns BadParameters, with no decrypt-chunk
\* call, for every input shorter than 32 bytes and every input whose length
\* minus 16 is not a multiple of 16.
C14_BadShapeRejected ==
    (crypto.pc = "ddec" /\ BadShape(crypto.input)) =>
        (crypto.dec.rc = "BadParameters" /\ crypto.dec.calls = 0)

\* C14 amended: the same when the client has a key; without a key the key
\* check comes first and the result is ItemNotFound, still with no
\* decrypt-chunk call.
C14_BadShapeRejectedWithKey ==
    (crypto.pc = "ddec" /\ BadShape(crypto.input)) =>
        /\ crypto.dec.calls = 0
        /\ crypto.dec.rc = IF crypto.key0 = NoKey THEN "ItemNotFound" ELSE "BadParameters"

\* A 40-byte input (24 bytes after the IV) was rejected under a key.
C14_Witness ==
    /\ crypto.pc = "ddec"
    /\ crypto.key0 # NoKey
    /\ Len(crypto.input) = 40
    /\ crypto.chunk = AES_BLOCK_SIZE
    /\ crypto.dec.rc = "BadParameters"

C16_KeyAsymmetry ==
    /\ (crypto.pc = "denc" /\ crypto.key0 = NoKey) =>
           /\ crypto.enc.rc = "Ok"
           /\ crypto.key = crypto.gen
           /\ crypto.enc.out =
                  crypto.iv \o CbcEncrypt(crypto.gen, crypto.iv, PadWithLen(crypto.input))
    /\ (crypto.pc = "ddec" /\ crypto.key0 = NoKey) =>
           /\ crypto.dec.rc = "ItemNotFound"
           /\ crypto.dec.calls = 0
           /\ crypto.key = NoKey

\* encrypt_data on a client without a key returned a ciphertext.
C16_Witness ==
    /\ crypto.pc = "denc"
    /\ crypto.key0 = NoKey
    /\ crypto.enc.rc = "Ok"
    /\ Len(crypto.enc.out) >= 3 * AES_BLOCK_SIZE

(***************************************************************************)
(* SpecDispatch: one session sends command ids 0..MaxCmdId with a few      *)
(* input buffers to an enclave built with or without the encrypt-model     *)
(* feature.                                                                *)
(***************************************************************************)
\* The largest command id sent.
MaxCmdId == 9

\* Input buffers: empty, one image, a key, a single-blob ciphertext of a
\* record under that key.
DispatchInputs ==
    {<<>>, <<1>>, KeyOf(1), encrypt_data(KeyOf(1), ModelRecord(1, 1), IvOf(1)).out}

DispatchInit ==
    /\ TaStart
    /\ features \in [encrypt_model : BOOLEAN]
    /\ crypto = CryptoIdle
    /\ host = HostIdle

Dispatch ==
    \E cmd_id \in 0..MaxCmdId, p0 \in DispatchInputs :
        /\ cmd_id = 5 => Len(MODEL_BUF) + Len(p0) <= MaxBuf
        /\ call' = Call(cmd_id, 0, p0)
        /\ invoke_command(cmd_id, p0, ENCRYPT_SLACK, KeyOf(2), IvOf(2))
        /\ UNCHANGED <<load, everLoaded, crypto, host, features, threads, stored>>

SpecDispatch == DispatchInit /\ [][Dispatch]_vars

\* C13: each routed id shows the effect of its handler - 0 infer, 3
\* store_key, 4 begin_model_load, 5 push_encrypted_chunk, 6
\* finalize_model_load, 7 export_key, and 1 encrypt_model in a build with
\* the encrypt-model feature; every other id (2, 8 and above, and 1 in a
\* build without the feature) returns BadParameters and leaves the enclave
\* state as it was.
C13_Dispatch ==
    [][LET id == call'.cmd
           p0 == call'.p0
       IN  /\ id = 0 =>
                  /\ UNCHANGED taVars
                  /\ IF p0 = <<>> THEN res'.rc = "BadParameters"
                     ELSE IF MODEL = None THEN res'.rc = "CorruptObject"
                     ELSE res'.rc = "Ok" /\ Len(res'.out) = Len(p0)
           /\ (id = 1 /\ features.encrypt_model) =>
                  /\ res'.rc = "Ok"
                  /\ keyObj' # None
                  /\ Len(res'.out) = AES_BLOCK_SIZE
                         + ((Len(p0) + 4 + AES_BLOCK_SIZE - 1) \div AES_BLOCK_SIZE) * AES_BLOCK_SIZE
                  /\ SubSeq(res'.out, 1, AES_BLOCK_SIZE) = IvOf(2)
           /\ id = 3 =>
                  IF Len(p0) = AES_KEY_SIZE
                  THEN res'.rc = "Ok" /\ keyObj' = Some(p0) /\ KEY_MANAGER' = Some(p0)
                  ELSE res'.rc = "BadParameters" /\ UNCHANGED taVars
           /\ id = 4 =>
                  IF keyObj = None
                  THEN res'.rc = "ItemNotFound" /\ UNCHANGED taVars
                  ELSE res'.rc = "Ok" /\ MODEL_BUF' = <<>> /\ KEY_MANAGER' # None
           /\ id = 5 =>
                  /\ res'.rc = "Ok"
                  /\ MODEL_BUF' = MODEL_BUF \o p0
                  /\ UNCHANGED <<KEY_MANAGER, MODEL, keyObj, modelObj>>
           /\ id = 6 =>
                  IF keyObj = None
                  THEN res'.rc = "ItemNotFound" /\ UNCHANGED taVars
                  ELSE /\ MODEL_BUF' = <<>>
                       /\ res'.rc = "Ok" => MODEL' = Some(res'.plain)
                       /\ res'.rc # "Ok" => MODEL' = MODEL
           /\ id = 7 =>
                  /\ UNCHANGED taVars
                  /\ IF keyObj = None THEN res'.rc = "ItemNotFound"
                     ELSE res'.rc = "Ok" /\ res'.out = Unwrap(keyObj)
           /\ (id \in {2} \cup 8..MaxCmdId \/ (id = 1 /\ ~features.encrypt_model)) =>
                  /\ res'.rc = "BadParameters"
                  /\ res'.out = <<>>
                  /\ UNCHANGED taVars]_vars

\* TRUE when key occurs in out as a run of consecutive bytes.
ContainsKey(out, key) ==
    \E i \in 1..(Len(out) - Len(key) + 1) : SubSeq(out, i, i + Len(key) - 1) = key

\* C11: after each of the commands 0, 1, 3, 4, 5, 6 the bytes written to
\* the output parameter contain neither the key of the key object nor the
\* key of the active key manager; command 7 is the only one whose output
\* is the key.
C11_KeyStaysInside ==
    call.cmd \in {0, 1, 3, 4, 5, 6} =>
        /\ keyObj # None => ~ContainsKey(res.out, Unwrap(keyObj))
        /\ KEY_MANAGER # None => ~ContainsKey(res.out, Unwrap(KEY_MANAGER))

\* encrypt_model generated the key itself and returned an output long
\* enough to hold it twice.
C11_Witness ==
    /\ call.cmd = 1
    /\ res.rc = "Ok"
    /\ keyObj = Some(KeyOf(2))
    /\ Len(res.out) >= 2 * AES_KEY_SIZE

\* Command 1 was refused by a build without the encrypt-model feature in
\* which the routed commands had stored a key and loaded a model.
C13_Witness ==
    /\ call.cmd = 1
    /\ ~features.encrypt_model
    /\ res.rc = "BadParameters"
    /\ keyObj # None
    /\ MODEL # None

(***************************************************************************)
(* SpecSessions: two sessions load models through the one enclave          *)
(* instance, one command at a time in any interleaving.  load records, as  *)
(* history, what each session pushed since its own begin (mine), what all  *)
(* sessions pushed since the buffer was last emptied (all), and for the    *)
(* last finalize the caller's pushes (fin) and the bytes in the buffer     *)
(* when it was called (took).  A session pushes and finalizes only after   *)
(* its own begin has returned Ok.                                          *)
(***************************************************************************)
\* Session s streams the single-blob ciphertext of record s in two pieces.
SessionBlob(s) == encrypt_data(KeyOf(1), ModelRecord(s, s), IvOf(s)).out

SessionChunks(s) ==
    {SubSeq(SessionBlob(s), 1, AES_BLOCK_SIZE),
     SubSeq(SessionBlob(s), AES_BLOCK_SIZE + 1, Len(SessionBlob(s)))}

SessionsInit ==
    /\ KEY_MANAGER = None
    /\ MODEL = None
    /\ MODEL_BUF = <<>>
    /\ keyObj = None
    /\ modelObj = None
    /\ call = Call(CMD_NONE, 0, <<>>)
    /\ res = Ok
    /\ everLoaded = FALSE
    /\ stored = NothingStored
    /\ threads = NoThreads
    /\ features = [encrypt_model |-> TRUE]
    /\ load = [all |-> <<>>, mine |-> [s \in Sessions |-> <<>>],
               begun |-> [s \in Sessions |-> FALSE], fin |-> <<>>, took |-> <<>>,
               phase |-> "idle"]
    /\ crypto = CryptoIdle
    /\ host = HostIdle

SsStoreKey ==
    /\ keyObj = None
    /\ call' = Call(3, 0, KeyOf(1))
    /\ invoke_command(3, KeyOf(1), 0, NoKey, <<>>)
    /\ UNCHANGED <<load, everLoaded, crypto, host, features, threads, stored>>

SsBegin(s) ==
    /\ call' = Call(4, s, <<>>)
    /\ invoke_command(4, <<>>, 0, NoKey, <<>>)
    /\ load' = IF res'.rc = "Ok"
               THEN [load EXCEPT !.all = <<>>, !.mine[s] = <<>>, !.begun[s] = TRUE,
                                 !.phase = "loading"]
               ELSE load
    /\ UNCHANGED <<everLoaded, crypto, host, features, threads, stored>>

SsPush(s) ==
    \E enc \in SessionChunks(s) :
        /\ load.begun[s]
        /\ Len(MODEL_BUF) + Len(enc) <= MaxBuf
        /\ Len(load.mine[s]) + Len(enc) <= MaxBuf
        /\ call' = Call(5, s, enc)
        /\ invoke_command(5, enc, 0, NoKey, <<>>)
        /\ load' = [load EXCEPT !.all = load.all \o enc, !.mine[s] = load.mine[s] \o enc,
                                !.phase = "loading"]
        /\ UNCHANGED <<everLoaded, crypto, host, features, threads, stored>>

SsFinalize(s) ==
    /\ load.begun[s]
    /\ call' = Call(6, s, <<>>)
    /\ invoke_command(6, <<>>, 0, NoKey, <<>>)
    /\ load' = IF res'.rc = "ItemNotFound"
               THEN [load EXCEPT !.fin = load.mine[s], !.took = <<>>, !.phase = "finalized"]
               ELSE [load EXCEPT !.all = <<>>, !.mine[s] = <<>>, !.begun[s] = FALSE,
                                 !.fin = load.mine[s], !.took = load.all,
                                 !.phase = "finalized"]
    /\ everLoaded' = (everLoaded \/ res'.rc = "Ok")
    /\ UNCHANGED <<crypto, host, features, threads, stored>>

SessionsNext ==
    \/ SsStoreKey
    \/ \E s \in Sessions : SsBegin(s)
    \/ \E s \in Sessions : SsPush(s)
    \/ \E s \in Sessions : SsFinalize(s)

SpecSessions == SessionsInit /\ [][SessionsNext]_vars

\* C23: the buffer is one for all sessions: it holds what every session
\* pushed since it was last emptied, in arrival order, and a finalize
\* decrypts all of it, whoever pushed it.  The hazard is the reachable
\* state C23_Witness.
C23_SharedBuffer ==
    [][/\ MODEL_BUF' = load'.all
       /\ (call'.cmd = 6 /\ keyObj # None) =>
              /\ load'.took = MODEL_BUF
              /\ res'.plain = LET d == decrypt_data(Unwrap(keyObj), load.all)
                              IN  IF d.rc = "Ok" THEN d.out ELSE <<>>]_vars

\* A session that began a load and pushed both of its chunks called
\* finalize, and the bytes finalize took were not the concatenation of its
\* chunks: the other session's begin and push had come in between.
C23_Witness ==
    /\ call.cmd = 6
    /\ load.phase = "finalized"
    /\ load.fin = SessionBlob(call.sess)
    /\ load.took # <<>>
    /\ load.took # load.fin
    /\ res.rc # "Ok"

(***************************************************************************)
(* SpecThreads: the handlers of two sessions run statement by statement    *)
(* and interleave freely.  MODEL and MODEL_BUF are spin::Mutex statics: a  *)
(* handler takes the lock, works on the value, and drops the guard.        *)
(* KEY_MANAGER is a `static mut` reached through unsafe blocks.            *)
(* threads.th[t] is the handler of session t: its position pc, its input   *)
(* arg and its locals; threads.lock[r] is the holder of the mutex of r (0  *)
(* when free); threads.acc[r] is the set of handlers that are reading or   *)
(* writing r.                                                              *)
(***************************************************************************)
ThreadIdle ==
    [pc |-> "idle", op |-> "none", arg |-> <<>>, rc |-> "Ok", had |-> FALSE,
     m1 |-> None, m2 |-> None, enc |-> <<>>]

ThreadsInit ==
    /\ KEY_MANAGER = None
    /\ MODEL = None
    /\ MODEL_BUF = <<>>
    /\ keyObj = None
    /\ modelObj = None
    /\ call = Call(CMD_NONE, 0, <<>>)
    /\ res = Ok
    /\ load = Idle
    /\ everLoaded = FALSE
    /\ stored = NothingStored
    /\ features = [encrypt_model |-> TRUE]
    /\ crypto = CryptoIdle
    /\ host = HostIdle
    /\ threads = [th   |-> [t \in Sessions |-> ThreadIdle],
                  lock |-> [MODEL |-> 0, MODEL_BUF |-> 0],
                  acc  |-> [KEY_MANAGER |-> {}, MODEL |-> {}, MODEL_BUF |-> {}]]

\* A plausible slip: lock() does not wait for the holder.
MutexAlwaysFree(holder) == TRUE

\* spin::Mutex::lock() returns only when no guard is alive.
MutexFree(holder) == holder = 0

\* Handler t moves to pc with its locals changed as in new.
ThGoto(t, new) == [threads EXCEPT !.th[t] = new]

\* Handler t returns rc.
ThReturn(t, rc) == [threads.th[t] EXCEPT !.pc = "idle", !.rc = rc]

\* t takes the mutex of r and starts working on r.
ThLock(thr, t, r) ==
    [thr EXCEPT !.lock[r] = t, !.acc[r] = thr.acc[r] \cup {t}]

\* A plausible slip: the guard is leaked and the mutex stays taken.
ThUnlockLeaks(thr, t, r) ==
    [thr EXCEPT !.acc[r] = thr.acc[r] \ {t}]

\* t drops the guard of r.
ThUnlock(thr, t, r) ==
    [thr EXCEPT !.lock[r] = 0, !.acc[r] = thr.acc[r] \ {t}]

\* t enters, or leaves, an unsafe block that reads or writes KEY_MANAGER.
ThEnterKm(thr, t) == [thr EXCEPT !.acc.KEY_MANAGER = thr.acc.KEY_MANAGER \cup {t}]

ThLeaveKm(thr, t) == [thr EXCEPT !.acc.KEY_MANAGER = thr.acc.KEY_MANAGER \ {t}]

ThreadFrame == UNCHANGED <<call, res, load, everLoaded, crypto, host, features, stored>>

\* The dispatcher enters a handler for session t.
ThStart(t) ==
    /\ threads.th[t].pc = "idle"
    /\ \E c \in {[op |-> "store_key", pc |-> "sk_store", arg |-> KeyOf(1)],
                  [op |-> "store_key", pc |-> "sk_store", arg |-> KeyOf(2)],
                  [op |-> "begin", pc |-> "ekm_exists", arg |-> <<>>],
                  [op |-> "push", pc |-> "pu_lock", arg |-> SessionBlob(1)],
                  [op |-> "push", pc |-> "pu_lock", arg |-> SessionBlob(2)],
                  [op |-> "finalize", pc |-> "ekm_exists", arg |-> <<>>],
                  [op |-> "infer", pc |-> "inf_lock", arg |-> <<1>>]} :
          /\ c.op = "push" => Len(MODEL_BUF) + Len(c.arg) <= MaxBuf
          /\ threads' = ThGoto(t, [ThreadIdle EXCEPT !.pc = c.pc, !.op = c.op,
                                       !.arg = c.arg, !.had = (MODEL # None)])
    /\ UNCHANGED taVars
    /\ ThreadFrame

\* invoke_store_key: the key is persisted, then the unsafe block is entered.
ThStoreKeyPersist(t) ==
    /\ threads.th[t].pc = "sk_store"
    /\ keyObj' = store_ta_aes_key(keyObj, threads.th[t].arg)
    /\ threads' = ThEnterKm(ThGoto(t, [threads.th[t] EXCEPT !.pc = "sk_km"]), t)
    /\ UNCHANGED <<KEY_MANAGER, MODEL, MODEL_BUF, modelObj>>
    /\ ThreadFrame

\* KEY_MANAGER = Some(KeyManager::new(key)?)
ThStoreKeyInstall(t) ==
    /\ threads.th[t].pc = "sk_km"
    /\ KEY_MANAGER' = KeyManager_new(threads.th[t].arg)
    /\ threads' = ThLeaveKm(ThGoto(t, ThReturn(t, "Ok")), t)
    /\ UNCHANGED <<MODEL, MODEL_BUF, keyObj, modelObj>>
    /\ ThreadFrame

\* ensure_key_manager, first statement: the existence probe.
ThEnsureExists(t) ==
    /\ threads.th[t].pc = "ekm_exists"
    /\ threads' = IF ~ta_aes_key_exists(keyObj)
                  THEN ThGoto(t, ThReturn(t, "ItemNotFound"))
                  ELSE ThEnterKm(ThGoto(t, [threads.th[t] EXCEPT !.pc = "ekm_km"]), t)
    /\ UNCHANGED taVars
    /\ ThreadFrame

\* ensure_key_manager, the unsafe blocks: is_none, and the lazy load.
ThEnsureKm(t) ==
    /\ threads.th[t].pc = "ekm_km"
    /\ LET e == ensure_key_manager
       IN  /\ KEY_MANAGER' = e.km
           /\ threads' = ThLeaveKm(
                  ThGoto(t, IF e.rc # "Ok" THEN ThReturn(t, e.rc)
                            ELSE [threads.th[t] EXCEPT
                                     !.pc = IF threads.th[t].op = "begin" THEN "bg_lock"
                                            ELSE "fin_lock"]), t)
    /\ UNCHANGED <<MODEL, MODEL_BUF, keyObj, modelObj>>
    /\ ThreadFrame

\* MODEL_BUF.lock() in begin, push and finalize.
ThLockBuf(t) ==
    /\ threads.th[t].pc \in {"bg_lock", "pu_lock", "fin_lock"}
    /\ MutexFree(threads.lock.MODEL_BUF)
    /\ threads' = ThLock(
           ThGoto(t, [threads.th[t] EXCEPT
                         !.pc = CASE threads.th[t].pc = "bg_lock" -> "bg_clear"
                                  [] threads.th[t].pc = "pu_lock" -> "pu_extend"
                                  [] OTHER -> "fin_take"]), t, "MODEL_BUF")
    /\ UNCHANGED taVars
    /\ ThreadFrame

\* begin: buf.clear(), guard dropped.
ThBeginClear(t) ==
    /\ threads.th[t].pc = "bg_clear"
    /\ MODEL_BUF' = BufClear(MODEL_BUF)
    /\ threads' = ThUnlock(ThGoto(t, ThReturn(t, "Ok")), t, "MODEL_BUF")
    /\ UNCHANGED <<KEY_MANAGER, MODEL, keyObj, modelObj>>
    /\ ThreadFrame

\* push: buf.extend_from_slice(enc), guard dropped.
ThPushExtend(t) ==
    /\ threads.th[t].pc = "pu_extend"
    /\ MODEL_BUF' = BufExtend(MODEL_BUF, threads.th[t].arg)
    /\ threads' = ThUnlock(ThGoto(t, ThReturn(t, "Ok")), t, "MODEL_BUF")
    /\ UNCHANGED <<KEY_MANAGER, MODEL, keyObj, modelObj>>
    /\ ThreadFrame

\* finalize: core::mem::take, guard dropped; then KEY_MANAGER.as_mut().
ThFinalizeTake(t) ==
    /\ threads.th[t].pc = "fin_take"
    /\ MODEL_BUF' = <<>>
    /\ threads' = ThEnterKm(
           ThUnlock(ThGoto(t, [threads.th[t] EXCEPT !.pc = "fin_decrypt",
                                  !.enc = TakenBuffer(MODEL_BUF)]), t, "MODEL_BUF"), t)
    /\ UNCHANGED <<KEY_MANAGER, MODEL, keyObj, modelObj>>
    /\ ThreadFrame

\* decrypt_data under each key on the buffers that two sessions can build,
\* evaluated once.
DecryptTable ==
    [k \in Keys |->
        [enc \in {<<>>} \cup {SessionBlob(a) : a \in Sessions}
                  \cup {SessionBlob(a) \o SessionBlob(b) : a \in Sessions, b \in Sessions}
            |-> decrypt_data(Unwrap(KeyManager_new(k)), enc)]]

\* key_manager.decrypt_data(&encrypted)
ThDecryptData(key_manager, encrypted) ==
    IF key_manager \in Keys /\ encrypted \in DOMAIN DecryptTable[key_manager]
    THEN DecryptTable[key_manager][encrypted]
    ELSE decrypt_data(key_manager, encrypted)

\* finalize after decrypt_data has returned plain: Model::import.
ThImport(t, plain) ==
    IF plain.rc # "Ok" THEN [ThReturn(t, plain.rc) EXCEPT !.enc = <<>>]
    ELSE IF ~ImportOk(plain.out)
    THEN [ThReturn(t, "BadParameters") EXCEPT !.enc = <<>>]
    ELSE [threads.th[t] EXCEPT !.pc = "fin_mlock", !.enc = plain.out]

\* finalize: key_manager.decrypt_data(&encrypted) and Model::import.
ThFinalizeDecrypt(t) ==
    /\ threads.th[t].pc = "fin_decrypt"
    /\ threads' = ThLeaveKm(
           ThGoto(t, ThImport(t, IF KEY_MANAGER = None THEN Rc("BadState")
                                 ELSE ThDecryptData(Unwrap(KEY_MANAGER),
                                                    threads.th[t].enc))), t)
    /\ UNCHANGED taVars
    /\ ThreadFrame

\* MODEL.lock() in finalize and infer.
ThLockModel(t) ==
    /\ threads.th[t].pc \in {"fin_mlock", "inf_lock"}
    /\ MutexFree(threads.lock.MODEL)
    /\ threads' = ThLock(
           ThGoto(t, [threads.th[t] EXCEPT
                         !.pc = IF threads.th[t].pc = "fin_mlock" THEN "fin_install"
                                ELSE "inf_get"]), t, "MODEL")
    /\ UNCHANGED taVars
    /\ ThreadFrame

\* finalize: model.replace(imported_model), guard dropped.
ThFinalizeInstall(t) ==
    /\ threads.th[t].pc = "fin_install"
    /\ MODEL' = ModelAfterImport(MODEL, [rc |-> "Ok", out |-> threads.th[t].enc])
    /\ threads' = ThUnlock(ThGoto(t, ThReturn(t, "Ok")), t, "MODEL")
    /\ UNCHANGED <<KEY_MANAGER, MODEL_BUF, keyObj, modelObj>>
    /\ ThreadFrame

\* infer: model_guard.as_ref().ok_or(CorruptObject)?, and the first layers
\* of the forward pass.
ThInferGet(t) ==
    /\ threads.th[t].pc = "inf_get"
    /\ threads' = IF MODEL = None
                  THEN ThUnlock(ThGoto(t, ThReturn(t, "CorruptObject")), t, "MODEL")
                  ELSE ThGoto(t, [threads.th[t] EXCEPT !.pc = "inf_forward", !.m1 = MODEL])
    /\ UNCHANGED taVars
    /\ ThreadFrame

\* infer: the rest of the forward pass; the guard is dropped on return.
ThInferForward(t) ==
    /\ threads.th[t].pc = "inf_forward"
    /\ threads' = ThUnlock(ThGoto(t, [ThReturn(t, "Ok") EXCEPT !.m2 = MODEL]), t, "MODEL")
    /\ UNCHANGED taVars
    /\ ThreadFrame

ThreadsNext ==
    \E t \in Sessions :
        \/ ThStart(t)
        \/ ThStoreKeyPersist(t)
        \/ ThStoreKeyInstall(t)
        \/ ThEnsureExists(t)
        \/ ThEnsureKm(t)
        \/ ThLockBuf(t)
        \/ ThBeginClear(t)
        \/ ThPushExtend(t)
        \/ ThFinalizeTake(t)
        \/ ThFinalizeDecrypt(t)
        \/ ThLockModel(t)
        \/ ThFinalizeInstall(t)
        \/ ThInferGet(t)
        \/ ThInferForward(t)

SpecThreads == ThreadsInit /\ [][ThreadsNext]_vars

\* The statements of the handler of session t, the entry by the dispatcher
\* apart.
ThStep(t) ==
    \/ ThStoreKeyPersist(t)
    \/ ThStoreKeyInstall(t)
    \/ ThEnsureExists(t)
    \/ ThEnsureKm(t)
    \/ ThLockBuf(t)
    \/ ThBeginClear(t)
    \/ ThPushExtend(t)
    \/ ThFinalizeTake(t)
    \/ ThFinalizeDecrypt(t)
    \/ ThLockModel(t)
    \/ ThFinalizeInstall(t)
    \/ ThInferGet(t)
    \/ ThInferForward(t)

\* Fair scheduling: a handler that can take a step again and again takes
\* one; a spinning lock() that finds the mutex free again and again gets it.
\* No session is obliged to invoke a command.
SpecThreadsFair ==
    /\ ThreadsInit
    /\ [][ThreadsNext]_vars
    /\ \A t \in Sessions : SF_vars(ThStep(t))

C24_AtomicReplace ==
    [][\A t \in Sessions :
          LET a == threads.th[t]
              b == threads'.th[t]
          IN  /\ (a.op = "infer" /\ a.pc # "idle" /\ b # a) => MODEL' = MODEL
              /\ (a.pc = "inf_get" /\ a.had /\ b # a) => b.pc = "inf_forward"
              /\ (a.pc = "inf_forward" /\ b # a) =>
                     /\ b.rc = "Ok"
                     /\ b.m1 # None
                     /\ b.m2 = b.m1]_vars

\* An infer has returned Ok on the old model while the finalize of the
\* other session, holding a different model ready to install, was waiting
\* for the lock.
C24_Witness ==
    \E t \in Sessions, u \in Sessions :
        /\ threads.th[t].op = "infer"
        /\ threads.th[t].pc = "idle"
        /\ threads.th[t].rc = "Ok"
        /\ threads.th[u].pc = "fin_mlock"
        /\ Some(threads.th[u].enc) # threads.th[t].m1
        /\ threads.th[t].m2 = threads.th[t].m1

\* C35: when no handler is running and the key manager is active, its key
\* is the key in the persistent key object; and an active key manager stays
\* active.
C35_KeyConsistency ==
    [][/\ KEY_MANAGER # None => KEY_MANAGER' # None
       /\ ((\A t \in Sessions : threads'.th[t].pc = "idle") /\ KEY_MANAGER' # None) =>
             /\ keyObj' # None
             /\ Unwrap(KEY_MANAGER') = Unwrap(keyObj')]_vars

\* C30: at no time are two handlers reading or writing the same shared
\* resource - KEY_MANAGER, MODEL or MODEL_BUF.
C30_ExclusiveAccess ==
    /\ Cardinality(threads.acc.KEY_MANAGER) <= 1
    /\ Cardinality(threads.acc.MODEL) <= 1
    /\ Cardinality(threads.acc.MODEL_BUF) <= 1

(***************************************************************************)
(* SpecConnector: the host connectors infer_batch and encrypt_model        *)
(* (host/src/tee.rs) against whatever the enclave call reports: a return   *)
(* code, the bytes written at the start of the output buffer, and the      *)
(* updated size of the output parameter.                                   *)
(***************************************************************************)
MaxImages == 3

MaxConnLen == 3

\* The output buffer after the call: pre-sized with zeros, the written bytes
\* at its start.
OutputBuffer(cap, data) ==
    [i \in 1..cap |-> IF i <= Len(data) THEN data[i] ELSE 0]

\* A plausible slip: the pre-sized buffer is returned as it is.
TruncateKeeps(v, size) == v

\* Vec::truncate(size): no effect when size is not below the length.
Truncate(v, size) == IF size < Len(v) THEN SubSeq(v, 1, size) ELSE v

\* InferenceTaConnector::infer_batch on n images.
infer_batch(n, reply) ==
    LET output == OutputBuffer(n, reply.data)
    IN  IF reply.rc # "Ok" THEN Fail(reply.rc)
        ELSE IF Len(output) # reply.size THEN Fail("Generic")
        ELSE Result("Ok", output, <<>>)

\* ModelEncryptorTaConnector::encrypt_model on len bytes of model data.
encrypt_model(len, reply) ==
    LET encrypted_output == OutputBuffer(EncryptOutputCap(len), reply.data)
    IN  IF reply.rc # "Ok" THEN Fail(reply.rc)
        ELSE Result("Ok", Truncate(encrypted_output, reply.size), <<>>)

\* size bytes, none of them zero; v selects the values.
WrittenBytes(size, v) == [i \in 1..size |-> ((i * v) % 250) + 1]

ConnectorIdle ==
    [op |-> "none", n |-> 0, reply |-> [rc |-> "Ok", size |-> 0, data |-> <<>>],
     result |-> Ok]

ConnectorInit ==
    /\ TaInit
    /\ crypto = CryptoIdle
    /\ host = ConnectorIdle

ConnectorFrame ==
    UNCHANGED <<taVars, call, res, load, everLoaded, crypto, features, threads, stored>>

\* One call of infer_batch: the enclave reports any size up to one more than
\* the images sent.
ConnInferBatch ==
    /\ \E n \in 0..MaxImages, rc \in {"Ok", "CorruptObject"}, v \in 1..3 :
          \E size \in 0..(n + 1) :
             LET reply == [rc |-> rc, size |-> size,
                           data |-> WrittenBytes(Min(size, n), v)]
             IN  host' = [op |-> "infer_batch", n |-> n, reply |-> reply,
                          result |-> infer_batch(n, reply)]
    /\ ConnectorFrame

\* One call of encrypt_model: the enclave reports a size within the buffer.
ConnEncryptModel ==
    /\ \E len \in 0..MaxConnLen, rc \in {"Ok", "ShortBuffer"}, v \in 1..3 :
          \E size \in {0, AES_BLOCK_SIZE, 2 * AES_BLOCK_SIZE, len + ENCRYPT_SLACK} :
             LET reply == [rc |-> rc, size |-> size, data |-> WrittenBytes(size, v)]
             IN  host' = [op |-> "encrypt_model", n |-> len, reply |-> reply,
                          result |-> encrypt_model(len, reply)]
    /\ ConnectorFrame

ConnectorNext ==
    \/ ConnInferBatch
    \/ ConnEncryptModel

SpecConnector == ConnectorInit /\ [][ConnectorNext]_vars

\* C25: infer_batch fails whenever the call failed or the reported size is
\* not the number of images, and otherwise returns one byte per image;
\* encrypt_model returns exactly the first `size` bytes of its buffer.
C25_Connectors ==
    /\ host.op = "infer_batch" =>
          /\ (host.reply.rc # "Ok" \/ host.reply.size # host.n) =>
                 host.result.rc # "Ok" /\ host.result.out = <<>>
          /\ (host.reply.rc = "Ok" /\ host.reply.size = host.n) =>
                 host.result = Result("Ok", host.reply.data, <<>>)
    /\ (host.op = "encrypt_model" /\ host.reply.rc = "Ok") =>
          /\ host.result.rc = "Ok"
          /\ Len(host.result.out) = host.reply.size
          /\ host.result.out = host.reply.data

\* encrypt_model has returned 32 bytes out of a buffer of more than a
\* thousand.
C25_Witness ==
    /\ host.op = "encrypt_model"
    /\ host.n = MaxConnLen
    /\ host.reply.rc = "Ok"
    /\ host.reply.size = 2 * AES_BLOCK_SIZE
    /\ Len(host.result.out) = 2 * AES_BLOCK_SIZE

(***************************************************************************)
(* SpecFiles: the host infer command (host/src/commands/infer.rs) on       *)
(* chunked files that need not come from encrypt_model_chunked: the chunk  *)
(* records are in any order, their ids are any distinct ids, and           *)
(* total_chunks may differ from the number of records.                     *)
(***************************************************************************)
MaxChunkId == 3

MaxRecords == 3

\* A chunk record whose data is a whole encrypted model of its own.
ChunkRecord(id) ==
    [id |-> id, size |-> id + 3,
     data |-> encrypt_data(KeyOf(1), ModelRecord(id + 1, 1), IvOf(1)).out]

\* Sequences of chunk records with distinct ids.
ChunkLists ==
    {[k \in 1..Len(ids) |-> ChunkRecord(ids[k])] :
        ids \in UNION {[1..m -> 0..MaxChunkId] : m \in 0..MaxRecords}}

DistinctIds(chunks) ==
    \A a \in 1..Len(chunks), b \in 1..Len(chunks) :
        chunks[a].id = chunks[b].id => a = b

ChunkedFiles ==
    {[kind |-> "chunked", chunk_size |-> CHUNK_SIZE, total_chunks |-> t,
      original_size |-> Len(cs) * CHUNK_SIZE, chunks |-> cs] :
        t \in 0..(MaxRecords + 1),
        cs \in {c \in ChunkLists : DistinctIds(c)}}

FilesInit ==
    /\ TaInit
    /\ crypto = CryptoIdle
    /\ host \in [pc : {"file"}, model : {<<>>}, i : {0}, chunks : {<<>>},
                 file : {f \in ChunkedFiles :
                            f.total_chunks \in {Len(f.chunks), Len(f.chunks) + 1}},
                 sorted : {<<>>}, j : {0}]

\* The store-key command has been run before the infer command.
FilesStoreKey ==
    /\ host.pc = "file"
    /\ keyObj = None
    /\ call' = Call(3, 1, KeyOf(1))
    /\ invoke_command(3, KeyOf(1), 0, NoKey, <<>>)
    /\ UNCHANGED <<host, load, everLoaded, crypto, features, threads, stored>>

FilesNext ==
    \/ FilesStoreKey
    \/ HostInferBegin
    \/ HostInferPush
    \/ HostInferFinalize

SpecFiles == FilesInit /\ [][FilesNext]_vars

\* The position of chunk k of the file in ascending id order.
IdRank(chunks, k) ==
    1 + Cardinality({m \in 1..Len(chunks) : chunks[m].id < chunks[k].id})

RECURSIVE Concat(_)
Concat(pieces) == IF Len(pieces) = 0 THEN <<>> ELSE pieces[1] \o Concat(Tail(pieces))

\* C26: the pieces pushed for a chunked file with distinct ids are the data
\* of its chunks in ascending id order, whatever the order of the records in
\* the file, and the enclave buffer holds them in that order.
C26_OrderIndependent ==
    (host.pc \in {"push", "finalized"} /\ DistinctIds(host.file.chunks)) =>
        /\ Len(host.sorted) = Len(host.file.chunks)
        /\ \A k \in 1..Len(host.file.chunks) :
              host.sorted[IdRank(host.file.chunks, k)] = host.file.chunks[k].data
        /\ host.pc = "push" => MODEL_BUF = Concat(SubSeq(host.sorted, 1, host.j))

\* Three records stored as ids 2, 0, 1 have all been pushed.
C26_Witness ==
    /\ host.pc = "push"
    /\ Len(host.file.chunks) = 3
    /\ host.j = 3
    /\ host.file.chunks[1].id = 2
    /\ host.file.chunks[2].id = 0
    /\ host.file.chunks[3].id = 1
    /\ host.sorted = <<ChunkRecord(0).data, ChunkRecord(1).data, ChunkRecord(2).data>>

\* total_chunks is the number of records and the ids are 0..total_chunks-1.
WellFormed(file) ==
    /\ file.total_chunks = Len(file.chunks)
    /\ {file.chunks[k].id : k \in 1..Len(file.chunks)} = 0..(file.total_chunks - 1)

\* C27: for a malformed chunked file no finalize is issued and the resident
\* model is not replaced.
C27_MalformedRejected ==
    ~WellFormed(host.file) => (host.pc # "finalized" /\ MODEL = None)

(***************************************************************************)
(* SpecParse: the host store-key command (host/src/commands/store_key.rs)  *)
(* on key strings given as their UTF-8 bytes.  The command runs once: it   *)
(* parses the string and, only if that succeeds, opens a session and       *)
(* sends the key with command 3.                                           *)
(***************************************************************************)
HEX_KEY_CHARS == 64

NumHexStrings == 2

\* The value of an ASCII hexadecimal digit, or -1.
HexDigitValue(b) ==
    IF b \in 48..57 THEN b - 48
    ELSE IF b \in 97..102 THEN b - 87
    ELSE IF b \in 65..70 THEN b - 55
    ELSE 0 - 1

IsWhitespace(b) == b \in {9, 10, 11, 12, 13, 32}

\* str::trim_start and str::trim_end on strings whose whitespace is ASCII.
RECURSIVE TrimStart(_)
TrimStart(s) ==
    IF Len(s) > 0 /\ IsWhitespace(s[1]) THEN TrimStart(Tail(s)) ELSE s

RECURSIVE TrimEnd(_)
TrimEnd(s) ==
    IF Len(s) > 0 /\ IsWhitespace(s[Len(s)]) THEN TrimEnd(SubSeq(s, 1, Len(s) - 1)) ELSE s

\* hex_str.trim()
Trim(s) == TrimEnd(TrimStart(s))

\* str::is_char_boundary(idx), idx counted from 0: the start, the end, or a
\* byte that is not a UTF-8 continuation byte.
IsCharBoundary(s, idx) ==
    \/ idx = 0
    \/ idx = Len(s)
    \/ idx < Len(s) /\ ~(s[idx + 1] \in 128..191)

\* u8::from_str_radix(src, 16) on a two-byte string: an optional '+' sign,
\* then hexadecimal digits.
from_str_radix(src) ==
    LET digits == IF src[1] = 43 THEN Tail(src) ELSE src
    IN  IF \E k \in 1..Len(digits) : HexDigitValue(digits[k]) < 0
        THEN [rc |-> "Err", val |-> 0]
        ELSE IF Len(digits) = 1 THEN [rc |-> "Ok", val |-> HexDigitValue(digits[1])]
        ELSE [rc |-> "Ok", val |-> 16 * HexDigitValue(digits[1]) + HexDigitValue(digits[2])]

\* The for loop of parse_hex_key_32 from byte pair i on: a slice that does
\* not fall on character boundaries panics.
RECURSIVE ParsePairs(_, _, _)
ParsePairs(s, i, key) ==
    IF i = AES_KEY_SIZE THEN [rc |-> "Ok", key |-> key]
    ELSE IF ~IsCharBoundary(s, i * 2) \/ ~IsCharBoundary(s, i * 2 + 2)
    THEN [rc |-> "Panic", key |-> <<>>]
    ELSE LET byte == from_str_radix(SubSeq(s, i * 2 + 1, i * 2 + 2))
         IN  IF byte.rc # "Ok" THEN [rc |-> "Err", key |-> <<>>]
             ELSE ParsePairs(s, i + 1, Append(key, byte.val))

parse_hex_key_32(hex_str) ==
    LET s == Trim(hex_str)
    IN  IF Len(s) # HEX_KEY_CHARS THEN [rc |-> "Err", key |-> <<>>]
        ELSE ParsePairs(s, 0, <<>>)

\* A lower-case hexadecimal digit as an ASCII byte.
HexChar(d) == IF d < 10 THEN 48 + d ELSE 87 + d

\* Strings of 64 hexadecimal digits.
HexString(v) == [i \in 1..HEX_KEY_CHARS |-> HexChar((i * v + v) % 16)]

\* The key a string of 64 hexadecimal digits stands for.
KeyOfHex(s) ==
    [i \in 1..AES_KEY_SIZE |-> 16 * HexDigitValue(s[2 * i - 1]) + HexDigitValue(s[2 * i])]

IsHex64(s) ==
    /\ Len(s) = HEX_KEY_CHARS
    /\ \A k \in 1..Len(s) : HexDigitValue(s[k]) >= 0

\* What the user may type: a hexadecimal string; one with a character
\* replaced by 'A', '+', ' ' or 'g'; one with two characters replaced by the
\* two bytes of U+00E9; one with whitespace around it; one that is too short
\* or too long; nothing.
KeyStrings ==
    UNION {{HexString(v), <<>>, <<32>> \o HexString(v) \o <<10>>,
            SubSeq(HexString(v), 1, HEX_KEY_CHARS - 1), HexString(v) \o <<48>>}
           \cup {[HexString(v) EXCEPT ![p] = b] :
                    p \in 1..HEX_KEY_CHARS, b \in {65, 43, 32, 103}}
           \cup {[HexString(v) EXCEPT ![p] = 195, ![p + 1] = 169] :
                    p \in 1..(HEX_KEY_CHARS - 1)}
           : v \in 1..NumHexStrings}

ParseIdle ==
    [op |-> "none", input |-> <<>>, result |-> [rc |-> "Ok", key |-> <<>>],
     opened |-> FALSE]

ParseInit ==
    /\ TaInit
    /\ crypto = CryptoIdle
    /\ host = ParseIdle

\* execute: parse, then open the session and send the key.
HostStoreKey ==
    /\ host.op = "none"
    /\ \E hex_str \in KeyStrings :
          LET key == parse_hex_key_32(hex_str)
          IN  /\ host' = [op |-> "store_key", input |-> hex_str, result |-> key,
                          opened |-> (key.rc = "Ok")]
              /\ IF key.rc = "Ok"
                 THEN /\ call' = Call(3, 1, key.key)
                      /\ invoke_command(3, key.key, 0, NoKey, <<>>)
                 ELSE UNCHANGED <<taVars, call, res>>
    /\ UNCHANGED <<load, everLoaded, crypto, features, threads, stored>>

ParseNext == HostStoreKey

SpecParse == ParseInit /\ [][ParseNext]_vars

\* C29: a string of exactly 64 hexadecimal characters gives its key; every
\* other string gives a validation error, and then no session is opened and
\* no key is stored.
C29_ParseHexKey ==
    host.op = "store_key" =>
        IF IsHex64(host.input)
        THEN host.result = [rc |-> "Ok", key |-> KeyOfHex(host.input)]
        ELSE /\ host.result.rc = "Err"
             /\ ~host.opened
             /\ keyObj = None

(***************************************************************************)
(* SpecStream: one encrypt_data or decrypt_data call of a KeyManagerClient *)
(* (ta/inference/src/key_manager.rs), command by command.  The key lives   *)
(* in the key-manager service; has_aes_key, generate_aes_key and every     *)
(* encrypt_chunk / decrypt_chunk are separate commands to it, and clients  *)
(* of other sessions may send import_aes_key or generate a key on first    *)
(* use between any two of them.  crypto.svc is the key the service holds,  *)
(* crypto.used the key under which each chunk command of the call ran.     *)
(***************************************************************************)
StreamInputs ==
    {[op |-> "encrypt", buf |-> PadWithLen(DataOf(n, s)), iv |-> IvOf(s)] :
        n \in {8, 40, 72}, s \in {1, 2}}
    \cup {[op |-> "decrypt",
           buf |-> SubSeq(encrypt_data(KeyOf(1), DataOf(40, 1), IvOf(2)).out, AES_BLOCK_SIZE + 1,
                         Len(encrypt_data(KeyOf(1), DataOf(40, 1), IvOf(2)).out)),
           iv |-> IvOf(2)]}

StreamInit ==
    /\ TaInit
    /\ host = HostIdle
    /\ crypto \in [pc : {"idle"}, op : {"none"}, svc : {NoKey, KeyOf(1)}, buf : {<<>>},
                   offset : {0}, iv : {<<>>}, out : {<<>>}, used : {<<>>}, rc : {"Ok"}]

StreamFrame ==
    UNCHANGED <<taVars, call, res, load, everLoaded, host, features, threads, stored>>

\* encrypt_data or decrypt_data is entered.  For decrypt_data the shape
\* checks and the split into IV and ciphertext are done here.
StreamBegin ==
    /\ crypto.pc = "idle"
    /\ \E in \in StreamInputs :
          crypto' = [crypto EXCEPT !.pc = "check", !.op = in.op, !.buf = in.buf,
                                   !.iv = in.iv]
    /\ StreamFrame

\* has_aes_key, as called by ensure_aes_key and require_aes_key.
StreamHasKey ==
    /\ crypto.pc = "check"
    /\ crypto' = IF has_aes_key(crypto.svc) THEN [crypto EXCEPT !.pc = "loop"]
                 ELSE IF crypto.op = "encrypt" THEN [crypto EXCEPT !.pc = "generate"]
                 ELSE [crypto EXCEPT !.pc = "done", !.rc = require_aes_key(crypto.svc).rc]
    /\ StreamFrame

\* generate_aes_key, the second command of ensure_aes_key.
StreamGenerate ==
    /\ crypto.pc = "generate"
    /\ crypto' = [crypto EXCEPT !.pc = "loop", !.svc = KeyOf(1)]
    /\ StreamFrame

\* The chunk command of one iteration: the service runs it under the key it
\* holds at that moment.
StreamChunkReply(end) ==
    IF crypto.op = "encrypt"
    THEN encrypt_chunk(crypto.svc, SubSeq(crypto.buf, crypto.offset + 1, end), crypto.iv)
    ELSE decrypt_chunk(crypto.svc, SubSeq(crypto.buf, crypto.offset + 1, end), crypto.iv)

\* After the chunk command of one iteration has returned r.
StreamAfterChunk(r, end) ==
    IF r.rc # "Ok" THEN [crypto EXCEPT !.pc = "done", !.rc = r.rc,
                                       !.used = Append(crypto.used, crypto.svc)]
    ELSE [crypto EXCEPT !.offset = end, !.iv = NextIv(r, crypto.iv),
                        !.out = crypto.out \o SubSeq(r.out, 1, r.size),
                        !.used = Append(crypto.used, crypto.svc)]

\* One iteration of the while loop of encrypt_data or decrypt_data.
StreamChunk ==
    /\ crypto.pc = "loop"
    /\ crypto.offset < Len(crypto.buf)
    /\ crypto' = StreamAfterChunk(
                    StreamChunkReply(Min(crypto.offset + Max(CHUNK_SIZE, AES_BLOCK_SIZE),
                                         Len(crypto.buf))),
                    Min(crypto.offset + Max(CHUNK_SIZE, AES_BLOCK_SIZE), Len(crypto.buf)))
    /\ StreamFrame

\* The loop ends.
StreamEnd ==
    /\ crypto.pc = "loop"
    /\ ~(crypto.offset < Len(crypto.buf))
    /\ crypto' = [crypto EXCEPT !.pc = "done"]
    /\ StreamFrame

\* The client of another session sends import_aes_key.
OtherImport ==
    /\ crypto.pc # "done"
    /\ \E k \in Keys : crypto' = [crypto EXCEPT !.svc = k]
    /\ StreamFrame

\* The client of another session finds no key in ensure_aes_key and
\* generates one.
OtherGenerate ==
    /\ crypto.pc # "done"
    /\ ~has_aes_key(crypto.svc)
    /\ crypto' = [crypto EXCEPT !.svc = ensure_aes_key(crypto.svc, KeyOf(2))]
    /\ StreamFrame

StreamNext ==
    \/ StreamBegin
    \/ StreamHasKey
    \/ StreamGenerate
    \/ StreamChunk
    \/ StreamEnd
    \/ OtherImport
    \/ OtherGenerate

SpecStream == StreamInit /\ [][StreamNext]_vars

\* C32: all chunk commands of one encrypt_data or decrypt_data call run
\* under the same key.
C32_SameKeyPerStream ==
    \A i \in 1..Len(crypto.used), j \in 1..Len(crypto.used) :
        crypto.used[i] = crypto.used[j]

(***************************************************************************)
(* SpecOrder: the commands that one run of the host infer command on an    *)
(* encrypted model file (host/src/commands/infer.rs) or of the provision   *)
(* command (host/src/commands/provision.rs) issues on its session.  A call *)
(* returns what the enclave handler returns, or fails on the way to the    *)
(* enclave.  host.sent lists the commands issued, host.rcs their results.  *)
(***************************************************************************)
OrderFiles ==
    {[kind |-> "chunked", chunk_size |-> CHUNK_SIZE, total_chunks |-> Len(ids),
      original_size |-> 0, chunks |-> [k \in 1..Len(ids) |-> ChunkRecord(ids[k])]] :
        ids \in {<<0>>, <<1, 0>>}}
    \cup {[kind |-> "single", encrypted_data |-> d] :
             d \in {<<>>, ChunkRecord(0).data, DataOf(AES_BLOCK_SIZE, 1)}}

\* The pieces a run pushes: the chunks of a chunked file by id, the parts
\* of a single blob, or the parts of the plaintext given to provision.
OrderPieces(cmd, file) ==
    IF cmd = "infer" /\ file.kind = "chunked"
    THEN [k \in 1..Len(file.chunks) |-> SortById(file.chunks)[k].data]
    ELSE SliceChunks(file.encrypted_data, HOST_PUSH_CHUNK)

OrderInit ==
    /\ TaInit
    /\ crypto = CryptoIdle
    /\ \E cmd \in {"infer", "provision"}, file \in OrderFiles, n \in 0..2 :
          /\ cmd = "provision" => (file.kind = "single" /\ n = 0)
          /\ host = [pc |-> "file", cmd |-> cmd, sorted |-> OrderPieces(cmd, file),
                     j |-> 0, images |-> [i \in 1..n |-> i], sent |-> <<>>, rcs |-> <<>>]

\* A plausible slip: the result of a call is dropped and the run goes on.
AfterCallIgnoringError(rc, next) == next

\* The `?` after each connector call: an error ends the run.
AfterCall(rc, next) == IF rc # "Ok" THEN "failed" ELSE next

\* One connector call: the command reaches the enclave, or it does not.
OrderCall(cmd_id, p0, cap, next, j) ==
    /\ call' = Call(cmd_id, 1, p0)
    /\ \E lost \in BOOLEAN :
          IF lost THEN UNCHANGED taVars /\ res' = Fail("Communication")
          ELSE invoke_command(cmd_id, p0, cap, NoKey, <<>>)
    /\ host' = [host EXCEPT !.pc = AfterCall(res'.rc, next), !.j = j,
                            !.sent = Append(host.sent, cmd_id),
                            !.rcs = Append(host.rcs, res'.rc)]
    /\ UNCHANGED <<load, everLoaded, crypto, features, threads, stored>>

OrderBegin ==
    /\ host.pc = "file"
    /\ OrderCall(4, <<>>, 0, "push", 0)

OrderPush ==
    /\ host.pc = "push"
    /\ host.j < Len(host.sorted)
    /\ OrderCall(5, host.sorted[host.j + 1], 0, "push", host.j + 1)

OrderFinalize ==
    /\ host.pc = "push"
    /\ host.j = Len(host.sorted)
    /\ OrderCall(6, <<>>, 0, IF host.cmd = "infer" THEN "infer" ELSE "done", host.j)

\* infer_batch on the images of the command line.
OrderInfer ==
    /\ host.pc = "infer"
    /\ OrderCall(0, host.images, Len(host.images), "done", host.j)

OrderNext ==
    \/ FilesStoreKey
    \/ OrderBegin
    \/ OrderPush
    \/ OrderFinalize
    \/ OrderInfer

SpecOrder == OrderInit /\ [][OrderNext]_vars

\* The commands of a whole run: begin, one push per piece, finalize, and
\* for the infer command the inference.
OrderPlan ==
    <<4>> \o [k \in 1..Len(host.sorted) |-> 5] \o <<6>>
          \o (IF host.cmd = "infer" THEN <<0>> ELSE <<>>)

\* C34: the commands issued so far are the first commands of the plan, the
\* pushes carry the pieces in send order, only the last command issued may
\* have failed, and a run that has failed or is done issues nothing more.
C34_CommandOrder ==
    [][/\ Len(host'.sent) <= Len(OrderPlan)
       /\ host'.sent = SubSeq(OrderPlan, 1, Len(host'.sent))
       /\ \A i \in 1..(Len(host'.rcs) - 1) : host'.rcs[i] = "Ok"
       /\ (call'.cmd = 5 /\ host' # host) => call'.p0 = host.sorted[Len(host.sent)]
       /\ (Len(host.rcs) > 0 /\ host.rcs[Len(host.rcs)] # "Ok") => host' = host
       /\ host.pc = "done" => host' = host]_vars

\* The infer command has begun, pushed two chunks, finalized, and its
\* inference has been refused.
C34_Witness ==
    /\ host.cmd = "infer"
    /\ host.sent = <<4, 5, 5, 6, 0>>
    /\ host.pc = "failed"
    /\ host.rcs = <<"Ok", "Ok", "Ok", "Ok", "BadParameters">>

(***************************************************************************)
(* SpecEncrypt: invoke_encrypt_model statement by statement, for two       *)
(* sessions.  The handler takes no lock; its locals are the result of the  *)
(* existence probe (had), the key it works with (arg) and the ciphertext   *)
(* it returns (enc).                                                       *)
(***************************************************************************)
\* The model a session submits, and the IV its call draws.
EncSubmitted(t) == ModelRecord(t, t)

\* key_manager.encrypt_data(model_data) for each key and session.
EncryptModelTable ==
    [k \in Keys |->
        [t \in Sessions |-> encrypt_data(Unwrap(KeyManager_new(k)), EncSubmitted(t), IvOf(t))]]

\* decrypt_data under key k of what session t received under key e.
DecryptModelTable ==
    [k \in Keys |->
        [e \in Keys |->
            [t \in Sessions |-> decrypt_data(k, EncryptModelTable[e][t].out)]]]

\* The dispatcher enters invoke_encrypt_model for session t.
EncStart(t) ==
    /\ threads.th[t].pc = "idle"
    /\ threads' = ThGoto(t, [ThreadIdle EXCEPT !.pc = "em_exists", !.op = "encrypt_model"])
    /\ UNCHANGED taVars
    /\ ThreadFrame

\* if ta_aes_key_exists()
EncExists(t) ==
    /\ threads.th[t].pc = "em_exists"
    /\ LET exists == ta_aes_key_exists(keyObj)
       IN  threads' = ThGoto(t, [threads.th[t] EXCEPT
                                    !.had = exists,
                                    !.pc = IF exists THEN "em_load" ELSE "em_generate"])
    /\ UNCHANGED taVars
    /\ ThreadFrame

\* load_ta_aes_key()?
EncLoad(t) ==
    /\ threads.th[t].pc = "em_load"
    /\ LET loaded == load_ta_aes_key(keyObj)
       IN  threads' = ThGoto(t, IF loaded.rc # "Ok" THEN ThReturn(t, loaded.rc)
                                ELSE [threads.th[t] EXCEPT !.arg = loaded.val,
                                                           !.pc = "em_encrypt"])
    /\ UNCHANGED taVars
    /\ ThreadFrame

\* let new_key = KeyManager::generate_aes_key()?
EncGenerate(t) ==
    /\ threads.th[t].pc = "em_generate"
    /\ \E new_key \in Keys :
          threads' = ThGoto(t, [threads.th[t] EXCEPT !.arg = new_key, !.pc = "em_store"])
    /\ UNCHANGED taVars
    /\ ThreadFrame

\* store_ta_aes_key(&new_key)?
EncStore(t) ==
    /\ threads.th[t].pc = "em_store"
    /\ keyObj' = store_ta_aes_key(keyObj, threads.th[t].arg)
    /\ threads' = ThGoto(t, [threads.th[t] EXCEPT !.pc = "em_encrypt"])
    /\ UNCHANGED <<KEY_MANAGER, MODEL, MODEL_BUF, modelObj>>
    /\ ThreadFrame

\* KeyManager::new, encrypt_data, the size check and the copy to the output.
EncEncrypt(t) ==
    /\ threads.th[t].pc = "em_encrypt"
    /\ \E small \in BOOLEAN :
          LET aes_key == threads.th[t].arg
              encrypted_model == EncryptModelTable[aes_key][t]
              cap == IF small THEN AES_BLOCK_SIZE
                     ELSE Len(EncSubmitted(t)) + ENCRYPT_SLACK
              reply == EncryptModelReply(aes_key, encrypted_model, cap)
          IN  threads' = ThGoto(t, [ThReturn(t, reply.rc) EXCEPT !.enc = reply.out])
    /\ UNCHANGED taVars
    /\ ThreadFrame

EncryptNext ==
    \E t \in Sessions :
        \/ EncStart(t)
        \/ EncExists(t)
        \/ EncLoad(t)
        \/ EncGenerate(t)
        \/ EncStore(t)
        \/ EncEncrypt(t)

SpecEncrypt == ThreadsInit /\ [][EncryptNext]_vars

\* C36: encrypt_model stores a key only when no key exists, and what a
\* session received from encrypt_model decrypts, under the key that is
\* persisted, to the model it submitted.
C36_KeyNeverReplaced ==
    [][\A t \in Sessions :
          /\ (threads.th[t].pc = "em_store" /\ threads'.th[t].pc # "em_store") =>
                keyObj = None
          /\ (threads'.th[t].pc = "idle" /\ threads'.th[t].op = "encrypt_model"
                                         /\ threads'.th[t].rc = "Ok") =>
                /\ keyObj' # None
                /\ LET d == DecryptModelTable[Unwrap(keyObj')][threads'.th[t].arg][t]
                   IN  d.rc = "Ok" /\ d.out = EncSubmitted(t)]_vars

(***************************************************************************)
(* SpecPrefix: the arithmetic on the length prefix, on the widths usize    *)
(* can have and with or without overflow checks in the build.  Lengths     *)
(* that do not fit the checker's integers are records of 16-bit halves     *)
(* (value = top * 2^32 + hi * 65536 + lo).                                 *)
(***************************************************************************)
MaxPrefixBlocks == 2

UsizeBits == {32, 64}

\* original_len + 4 as the unbounded sum; carry is bit 32.
PlusFour(original_len) ==
    LET s == original_len.lo + 4
        h == original_len.hi + (s \div 65536)
    IN  [lo |-> s % 65536, hi |-> h % 65536, carry |-> h \div 65536]

\* sum > n for a sum below 2^32.
SumExceeds(sum, n) ==
    sum.hi > n \div 65536 \/ (sum.hi = n \div 65536 /\ sum.lo > n % 65536)

\* The end of decrypt_data on a usize of w bits: the prefix check and the
\* slice.  With overflow checks the addition panics when it does not fit;
\* without them it wraps, and the slice 4..end panics when end < 4.
DecryptedSliceOn(decrypted, w, overflow_checks) ==
    IF Len(decrypted) < 4 THEN [rc |-> "BadParameters", out |-> <<>>]
    ELSE LET original_len == U32FromLeBytes(decrypted)
             sum          == PlusFour(original_len)
             end          == sum.hi * 65536 + sum.lo
         IN  IF sum.carry = 1 /\ w = 64
             THEN [rc |-> "BadParameters", out |-> <<>>]
             ELSE IF sum.carry = 1 /\ overflow_checks
             THEN [rc |-> "Panic", out |-> <<>>]
             ELSE IF SumExceeds(sum, Len(decrypted))
             THEN [rc |-> "BadParameters", out |-> <<>>]
             ELSE IF end < 4 THEN [rc |-> "Panic", out |-> <<>>]
             ELSE [rc |-> "Ok", out |-> SubSeq(decrypted, 5, end)]

\* data.len() as u32: the low 32 bits of the length.
LenAsU32(len) == [lo |-> len.lo, hi |-> len.hi]

\* (data.len() as u32).to_le_bytes()
PrefixOfLen(len) ==
    LET v == LenAsU32(len)
    IN  << v.lo % 256, v.lo \div 256, v.hi % 256, v.hi \div 256 >>

\* Prefixes at the edges: 0, around the decrypted length, and the top of
\* the 32-bit range.
PrefixValues ==
    {[lo |-> l, hi |-> 0] : l \in {0, 1, 12, 13, 28, 29, 65535}}
        \cup {[lo |-> l, hi |-> 65535] : l \in {65519, 65531, 65532, 65533, 65535}}
        \cup {[lo |-> 0, hi |-> 1], [lo |-> 0, hi |-> 32768]}

\* What the while loop of decrypt_data can return: whole blocks, of which
\* the first four bytes are read as the prefix.
PrefixDecrypted ==
    {PrefixOfLen([lo |-> v.lo, hi |-> v.hi, top |-> 0]) \o [i \in 1..(b * AES_BLOCK_SIZE - 4) |-> i]
        : v \in PrefixValues, b \in 1..MaxPrefixBlocks}

\* Lengths a slice can have: below 2^31 on a 32-bit usize, beyond 2^32 on
\* a 64-bit one.
DataLengths(w) ==
    {[lo |-> l, hi |-> h, top |-> 0] : l \in {0, 5, 65535}, h \in {0, 1, 32767}}
        \cup (IF w = 64
              THEN {[lo |-> l, hi |-> h, top |-> 0] : l \in {0, 65535}, h \in {32768, 65535}}
                       \cup {[lo |-> l, hi |-> 0, top |-> 1] : l \in {0, 5}}
              ELSE {})

PrefixInit ==
    /\ KEY_MANAGER = None
    /\ MODEL = None
    /\ MODEL_BUF = <<>>
    /\ keyObj = None
    /\ modelObj = None
    /\ call = Call(CMD_NONE, 0, <<>>)
    /\ res = Ok
    /\ load = Idle
    /\ everLoaded = FALSE
    /\ stored = NothingStored
    /\ features = [encrypt_model |-> TRUE]
    /\ host = HostIdle
    /\ threads = NoThreads
    /\ \E w \in UsizeBits, overflow_checks \in BOOLEAN :
          \/ \E d \in PrefixDecrypted :
                crypto = [pc |-> "input", op |-> "decrypt", w |-> w,
                          checks |-> overflow_checks, decrypted |-> d,
                          len |-> [lo |-> 0, hi |-> 0, top |-> 0],
                          rc |-> "Ok", out |-> <<>>]
          \/ \E len \in DataLengths(w) :
                crypto = [pc |-> "input", op |-> "encrypt", w |-> w,
                          checks |-> overflow_checks, decrypted |-> <<>>,
                          len |-> len, rc |-> "Ok", out |-> <<>>]

PrefixFrame ==
    UNCHANGED <<KEY_MANAGER, MODEL, MODEL_BUF, keyObj, modelObj, call, res, load,
                everLoaded, stored, features, host, threads>>

\* decrypt_data from the end of its while loop.
PrefixDecrypt ==
    /\ crypto.pc = "input" /\ crypto.op = "decrypt"
    /\ LET r == DecryptedSliceOn(crypto.decrypted, crypto.w, crypto.checks)
       IN  crypto' = [crypto EXCEPT !.pc = "done", !.rc = r.rc, !.out = r.out]
    /\ PrefixFrame

\* encrypt_data up to the prefix it puts in front of the data.
PrefixEncrypt ==
    /\ crypto.pc = "input" /\ crypto.op = "encrypt"
    /\ crypto' = [crypto EXCEPT !.pc = "done", !.out = PrefixOfLen(crypto.len)]
    /\ PrefixFrame

PrefixNext == PrefixDecrypt \/ PrefixEncrypt

SpecPrefix == PrefixInit /\ [][PrefixNext]_vars

\* C37: decrypt_data answers BadParameters to every prefix L with
\* L > decrypted length - 4 and never fails in the slice; the prefix
\* encrypt_data writes is the length of the data.
C37_PrefixArithmetic ==
    crypto.pc = "done" =>
        /\ crypto.op = "decrypt" =>
              /\ crypto.rc # "Panic"
              /\ LET sum == PlusFour(U32FromLeBytes(crypto.decrypted))
                 IN  (sum.carry = 1 \/ SumExceeds(sum, Len(crypto.decrypted))) =>
                        crypto.rc = "BadParameters"
        /\ crypto.op = "encrypt" =>
              /\ crypto.len.top = 0
              /\ U32FromLeBytes(crypto.out) = LenAsU32(crypto.len)

(***************************************************************************)
(* SpecSlack: ModelEncryptorTaConnector::encrypt_model on model data of    *)
(* every length up to MaxSlackLen, with and without a stored key.          *)
(***************************************************************************)
MaxSlackLen == 36

SlackInit ==
    /\ TaInit
    /\ crypto = CryptoIdle
    /\ \E n \in 0..MaxSlackLen, s \in Sessions :
          host = [pc |-> "slack", model |-> DataOf(n, s)]

\* A key was provisioned before the encrypt command.
SlackStoreKey ==
    /\ host.pc = "slack"
    /\ keyObj = None
    /\ call' = Call(3, 1, KeyOf(1))
    /\ invoke_command(3, KeyOf(1), 0, NoKey, <<>>)
    /\ UNCHANGED <<host, load, everLoaded, crypto, features, threads, stored>>

\* The connector call on the model data.
SlackEncrypt ==
    /\ host.pc = "slack"
    /\ \E gen \in {KeyOf(2)}, iv \in IVs :
          ConnectorEncryptModel(host.model, gen, iv)
    /\ host' = [host EXCEPT !.pc = "done"]
    /\ UNCHANGED <<load, everLoaded, crypto, features, threads, stored>>

SlackNext ==
    \/ SlackStoreKey
    \/ SlackEncrypt

SpecSlack == SlackInit /\ [][SlackNext]_vars

\* 16 + 16 * ceil((n + 4) / 16)
CipherLenOf(n) ==
    AES_BLOCK_SIZE + AES_BLOCK_SIZE * ((n + 4 + AES_BLOCK_SIZE - 1) \div AES_BLOCK_SIZE)

\* C38: through the connector, encrypt_model never answers ShortBuffer; the
\* ciphertext has 16 + 16 * ceil((n + 4) / 16) bytes, which is at most
\* n + 1024, at least 32, and 16 plus a multiple of 16.
C38_SlackSuffices ==
    host.pc = "done" =>
        LET n == Len(host.model)
        IN  /\ res.rc = "Ok"
            /\ Len(res.out) = CipherLenOf(n)
            /\ Len(res.out) <= n + ENCRYPT_SLACK
            /\ Len(res.out) >= 2 * AES_BLOCK_SIZE
            /\ (Len(res.out) - AES_BLOCK_SIZE) % AES_BLOCK_SIZE = 0

\* A model of 29 bytes, the length with the largest overhead, has been
\* encrypted under a key generated by the call: 64 bytes came back.
C38_Witness ==
    /\ host.pc = "done"
    /\ Len(host.model) = 29
    /\ res.rc = "Ok"
    /\ Len(res.out) = 64
    /\ keyObj = Some(KeyOf(2))

(***************************************************************************)
(* SpecPrint: the output loops of the host's infer command, after          *)
(* infer_batch has returned one class byte per input (binaries first,      *)
(* then images).                                                           *)
(***************************************************************************)
MaxBinaries == 2

NumClasses == 3

\* for (i, binary) in args.binary.iter().enumerate(): line i + 1 carries
\* result[i] (indices below are one-based).
BinaryLines(nb, result) ==
    [i \in 1..nb |-> [no |-> i, kind |-> "binary", idx |-> i, class |-> result[i]]]

\* for (i, image) in args.image.iter().enumerate(): line
\* i + args.binary.len() + 1 carries result[args.binary.len()].
ImageLines(nb, ni, result) ==
    [i \in 1..ni |-> [no |-> (i - 1) + nb + 1, kind |-> "image", idx |-> i,
                      class |-> result[nb + 1]]]

PrintInit ==
    /\ TaInit
    /\ crypto = CryptoIdle
    /\ \E nb \in 0..MaxBinaries, ni \in 0..MaxImages :
          \E result \in [1..(nb + ni) -> 0..(NumClasses - 1)] :
             host = [pc |-> "inferred", nb |-> nb, ni |-> ni, result |-> result,
                     lines |-> <<>>]

\* Both loops and the final message.
PrintResults ==
    /\ host.pc = "inferred"
    /\ host' = [host EXCEPT !.pc = "printed",
                            !.lines = BinaryLines(host.nb, host.result)
                                          \o ImageLines(host.nb, host.ni, host.result)]
    /\ UNCHANGED <<taVars, call, res, load, everLoaded, crypto, features, threads, stored>>

PrintNext == PrintResults

SpecPrint == PrintInit /\ [][PrintNext]_vars

\* C39: the line of the i-th binary carries result[i], the line of the
\* j-th image carries result[number of binaries + j].
C39_OwnClassPrinted ==
    host.pc = "printed" =>
        /\ Len(host.lines) = host.nb + host.ni
        /\ \A k \in 1..Len(host.lines) :
              /\ host.lines[k].no = k
              /\ host.lines[k].class = host.result[k]

(***************************************************************************)
(* SpecStorage: the functions of secure_storage.rs called in any order on  *)
(* the two persistent objects, each call meeting no fault or one fault.    *)
(***************************************************************************)
StorageCall(op, arg, fault) ==
    [op |-> op, arg |-> arg, fault |-> fault, after |-> [op |-> call.op, rc |-> res.rc]]

\* The outcome of a storage call: error code, bytes loaded, probe answer.
StorageResult(rc, val, found) == [rc |-> rc, val |-> val, found |-> found]

StorageInit ==
    /\ KEY_MANAGER = None
    /\ MODEL = None
    /\ MODEL_BUF = <<>>
    /\ keyObj = None
    /\ modelObj = None
    /\ call = [op |-> "none", arg |-> <<>>, fault |-> "none",
               after |-> [op |-> "none", rc |-> "Ok"]]
    /\ res = StorageResult("Ok", <<>>, FALSE)
    /\ load = Idle
    /\ everLoaded = FALSE
    /\ stored = NothingStored
    /\ threads = NoThreads
    /\ features = [encrypt_model |-> TRUE]
    /\ crypto = CryptoIdle
    /\ host = HostIdle

StStoreKey ==
    \E aes_key \in Keys, fault \in {"none", "create", "write"} :
        LET r == store_ta_aes_key_at(keyObj, aes_key, fault)
        IN  /\ call' = StorageCall("store_ta_aes_key", aes_key, fault)
            /\ res' = StorageResult(r.rc, <<>>, FALSE)
            /\ keyObj' = r.obj
            /\ stored' = IF r.rc = "Ok" THEN [stored EXCEPT !.key = Some(aes_key)]
                         ELSE stored
            /\ UNCHANGED <<KEY_MANAGER, MODEL, MODEL_BUF, modelObj, load, everLoaded,
                           features, threads, crypto, host>>

StLoadKey ==
    \E fault \in {"none", "open", "info", "read", "short"} :
        /\ call' = StorageCall("load_ta_aes_key", <<>>, fault)
        /\ res' = LET r == load_ta_aes_key_at(keyObj, fault)
                  IN  StorageResult(r.rc, r.val, FALSE)
        /\ UNCHANGED <<taVars, load, everLoaded, features, threads, stored, crypto, host>>

StKeyExists ==
    \E fault \in {"none", "open"} :
        /\ call' = StorageCall("ta_aes_key_exists", <<>>, fault)
        /\ res' = StorageResult("Ok", <<>>, ta_aes_key_exists_at(keyObj, fault))
        /\ UNCHANGED <<taVars, load, everLoaded, features, threads, stored, crypto, host>>

StStoreModel ==
    \E model \in Records, fault \in {"none", "create", "write"} :
        LET r == store_model_bytes_at(modelObj, model, fault)
        IN  /\ call' = StorageCall("store_model_bytes", model, fault)
            /\ res' = StorageResult(r.rc, <<>>, FALSE)
            /\ modelObj' = r.obj
            /\ stored' = IF r.rc = "Ok"
                         THEN [stored EXCEPT !.model = Some(model),
                                             !.prevModel = stored.model]
                         ELSE stored
            /\ UNCHANGED <<KEY_MANAGER, MODEL, MODEL_BUF, keyObj, load, everLoaded,
                           features, threads, crypto, host>>

StLoadModel ==
    \E fault \in {"none", "open", "info", "read", "short"} :
        /\ call' = StorageCall("load_model_bytes", <<>>, fault)
        /\ res' = LET r == load_model_bytes_at(modelObj, fault)
                  IN  StorageResult(r.rc, r.val, FALSE)
        /\ UNCHANGED <<taVars, load, everLoaded, features, threads, stored, crypto, host>>

StModelExists ==
    \E fault \in {"none", "open"} :
        /\ call' = StorageCall("model_bytes_exists", <<>>, fault)
        /\ res' = StorageResult("Ok", <<>>, model_bytes_exists_at(modelObj, fault))
        /\ UNCHANGED <<taVars, load, everLoaded, features, threads, stored, crypto, host>>

StorageNext ==
    \/ StStoreKey
    \/ StLoadKey
    \/ StKeyExists
    \/ StStoreModel
    \/ StLoadModel
    \/ StModelExists

SpecStorage == StorageInit /\ [][StorageNext]_vars

\* C17: for each of the two objects, a load that meets no fault directly
\* after a store that returned Ok returns exactly the bytes of that store,
\* whatever was stored before it.
C17_StoreThenLoad ==
    [][/\ (/\ call.op = "store_ta_aes_key" /\ res.rc = "Ok"
           /\ call'.op = "load_ta_aes_key" /\ call'.fault = "none")
              => (res'.rc = "Ok" /\ res'.val = call.arg)
       /\ (/\ call.op = "store_model_bytes" /\ res.rc = "Ok"
           /\ call'.op = "load_model_bytes" /\ call'.fault = "none")
              => (res'.rc = "Ok" /\ res'.val = call.arg)]_vars

\* A load returned the second of two stored models, the first one longer.
C17_Witness ==
    /\ call.op = "load_model_bytes"
    /\ call.after = [op |-> "store_model_bytes", rc |-> "Ok"]
    /\ res.rc = "Ok"
    /\ stored.prevModel # None
    /\ res.val = Unwrap(stored.model)
    /\ Len(Unwrap(stored.prevModel)) > Len(res.val)

\* C18: an existence probe returns a boolean and no error: TRUE exactly
\* when the object is there and the open for reading met no error; and it
\* leaves both objects as they were.
C18_ProbesNeverFail ==
    [][/\ call'.op = "ta_aes_key_exists" =>
              /\ res'.rc = "Ok"
              /\ res'.found = (keyObj # None /\ call'.fault # "open")
              /\ UNCHANGED <<keyObj, modelObj>>
       /\ call'.op = "model_bytes_exists" =>
              /\ res'.rc = "Ok"
              /\ res'.found = (modelObj # None /\ call'.fault # "open")
              /\ UNCHANGED <<keyObj, modelObj>>]_vars

\* The key object is there, the open fails, the probe answers FALSE.
C18_Witness ==
    /\ call.op = "ta_aes_key_exists"
    /\ call.fault = "open"
    /\ keyObj # None
    /\ res.rc = "Ok"
    /\ res.found = FALSE

\* C19: a load of an absent object fails with ItemNotFound; a load whose
\* read comes back short fails; and a load that returns Ok returns the
\* bytes of the object's last successful store.
C19_LoadReturnsLastStored ==
    /\ call.op = "load_ta_aes_key" =>
           /\ (keyObj = None => res.rc = "ItemNotFound")
           /\ (keyObj # None /\ call.fault = "short" => res.rc # "Ok")
           /\ (res.rc = "Ok" => stored.key = Some(res.val))
    /\ call.op = "load_model_bytes" =>
           /\ (modelObj = None => res.rc = "ItemNotFound")
           /\ (modelObj # None /\ modelObj # Some(<<>>) /\ call.fault = "short"
                  => res.rc # "Ok")
           /\ (res.rc = "Ok" => stored.model = Some(res.val))

====
